---------------------------- MODULE Spec2Model ----------------------------
(***************************************************************************)
(* A model of the flecs rule engine (src/src/addons/rules.c): the rule     *)
(* compiler (scan_variables, compile_program and the insert emitters)      *)
(* and the rule virtual machine (ecs_rule_iter, ecs_rule_next, eval_op).   *)
(*                                                                         *)
(* The storage layer (tables, id records, entity index) is not part of     *)
(* rules.c; it is modelled from its interface as the rule engine uses it.  *)
(* Array indices are 0-based as in the C code; a C array a[i] is the       *)
(* sequence element a[i + 1].                                              *)
(***************************************************************************)
EXTENDS Integers, Sequences, FiniteSets, TLC

(***************************************************************************)
(* Entity ids and id encoding (flecs.h)                                    *)
(***************************************************************************)

\* Number of distinct low ids; stands for the 2^32 values of the low word.
LoRange == 16
\* Number of generations of an id slot.
GenRange == 2
\* The PAIR role bit: every pair id is larger than every entity id.
PairBase == 256

\* Builtin entities.  In flecs the builtin ids are smaller than every id an
\* application creates.
EcsWildcard == 1
EcsThis == 2
EcsTransitive == 3
EcsTransitiveSelf == 4
EcsFinal == 5
EcsIsA == 6
\* First id handed out to the application.
FirstUserId == 7

UINT8_MAX == 255

\* Let([x \in {e} |-> body]) is body with x standing for the value of e: the
\* value of a C local variable, computed once where it is assigned.
Let(f) == f[CHOOSE v \in DOMAIN f : TRUE]

ecs_entity_t_lo(e) == e % LoRange

ecs_generation(e) == e \div LoRange

ECS_HAS_ROLE_PAIR(id) == id >= PairBase

ecs_pair(pred, obj) ==
    PairBase + ecs_entity_t_lo(pred) * LoRange + ecs_entity_t_lo(obj)

ECS_PAIR_RELATION(id) == ((id - PairBase) \div LoRange) % LoRange

\* ECS_PAIR_OBJECT is the low word of the id, whether or not it is a pair.
ECS_PAIR_OBJECT(id) == id % LoRange

\* ecs_id_match(id, pattern)
ecs_id_match(id, pattern) ==
    IF id = pattern THEN TRUE
    ELSE IF ECS_HAS_ROLE_PAIR(pattern) THEN
        IF ~ECS_HAS_ROLE_PAIR(id) THEN FALSE
        ELSE Let([id_rel \in {ECS_PAIR_RELATION(id)} |->
             Let([id_obj \in {ECS_PAIR_OBJECT(id)} |->
             Let([pattern_rel \in {ECS_PAIR_RELATION(pattern)} |->
             Let([pattern_obj \in {ECS_PAIR_OBJECT(pattern)} |->
                IF pattern_rel = EcsWildcard
                THEN pattern_obj = EcsWildcard \/ pattern_obj = id_obj
                ELSE pattern_obj = EcsWildcard /\ pattern_rel = id_rel])])])])
    ELSE IF ECS_HAS_ROLE_PAIR(id) THEN FALSE
    ELSE pattern = EcsWildcard

(***************************************************************************)
(* Small helpers on sequences and sets                                     *)
(***************************************************************************)

Min(S) == CHOOSE x \in S : \A y \in S : x <= y

Max(S) == CHOOSE x \in S : \A y \in S : x >= y

RECURSIVE SortSet(_)
\* The elements of a finite set of integers in increasing order.
SortSet(S) == IF S = {} THEN <<>> ELSE <<Min(S)>> \o SortSet(S \ {Min(S)})

Range(s) == {s[i] : i \in DOMAIN s}

\* The indices (1-based) of the elements of s that satisfy P, in order.
SelectIdx(s, P(_)) == SortSet({i \in DOMAIN s : P(s[i])})

(***************************************************************************)
(* Storage (the world).  A world is a record                               *)
(*   tables : sequence of [type : sequence of ids, increasing,             *)
(*                         entities : sequence of entities]                *)
(* A table is named by its index in world.tables; 0 is the NULL table.     *)
(* Entities whose type holds none of the modelled ids live in a table with *)
(* an empty type (their identifier component is not modelled).             *)
(***************************************************************************)

NULL == 0

table_type(world, table) == world.tables[table].type

table_entities(world, table) == world.tables[table].entities

ecs_table_count(world, table) == Len(world.tables[table].entities)

\* ecs_vector_count(table->type)
type_count(world, table) == Len(world.tables[table].type)

\* ecs_eis_get: the record (table, row) of an entity, table = NULL if none.
ecs_eis_get(world, e) ==
    Let([hits \in {{t \in DOMAIN world.tables :
                    \E r \in DOMAIN world.tables[t].entities :
                        world.tables[t].entities[r] = e}} |->
       IF hits = {} THEN [table |-> NULL, row |-> 0]
       ELSE Let([t \in {Min(hits)} |->
            Let([r \in {Min({r \in DOMAIN world.tables[t].entities :
                             world.tables[t].entities[r] = e})} |->
               [table |-> t, row |-> r - 1]])])])

\* All entities stored in the world.
world_entities(world) ==
    UNION {Range(world.tables[t].entities) : t \in DOMAIN world.tables}

\* ecs_get_alive: the live entity (with its generation) for an id's low word.
ecs_get_alive(world, e) ==
    Let([live \in {{x \in world_entities(world) :
                    ecs_entity_t_lo(x) = ecs_entity_t_lo(e)}} |->
       IF e = 0 THEN 0
       ELSE IF ecs_entity_t_lo(e) < FirstUserId THEN ecs_entity_t_lo(e)
       ELSE IF live = {} THEN 0 ELSE Min(live)])

\* ecs_is_valid
ecs_is_valid(world, e) == e # 0 /\ ecs_get_alive(world, e) = e

\* ecs_has_id(world, entity, id): the entity's own type holds the id.
ecs_has_id(world, e, id) ==
    Let([rec \in {ecs_eis_get(world, e)} |->
       rec.table # NULL /\ id \in Range(table_type(world, rec.table))])

\* ecs_strip_generation: id records are keyed by the id without the
\* generation of a plain id; a pair holds low words only.
ecs_strip_generation(id) ==
    IF ECS_HAS_ROLE_PAIR(id) THEN id ELSE ecs_entity_t_lo(id)

\* The id record lookup that keeps the generation in its key.
first_match_generation(world, table, pattern) ==
    Let([type \in {table_type(world, table)} |->
    Let([hits \in {{c \in DOMAIN type : ecs_id_match(type[c], pattern)}} |->
       IF hits = {} THEN -1 ELSE Min(hits) - 1])])

\* First column (0-based) of the table's type that matches the pattern, -1
\* if none.  The lookup is by the id without its generation.
first_match(world, table, pattern) ==
    Let([type \in {table_type(world, table)} |->
    Let([hits \in {{c \in DOMAIN type :
                      \/ ecs_id_match(type[c], pattern)
                      \/ ecs_strip_generation(type[c])
                            = ecs_strip_generation(pattern)}} |->
       IF hits = {} THEN -1 ELSE Min(hits) - 1])])

\* flecs_id_record_tables(flecs_get_id_record(world, id)): the table records
\* (table, first matching column) of the non-empty tables that hold the id,
\* in table order.
id_record_tables(world, pattern) ==
    Let([ts \in {SortSet({t \in DOMAIN world.tables :
                          /\ ecs_table_count(world, t) # 0
                          /\ first_match(world, t, pattern) # -1})} |->
       [i \in DOMAIN ts |->
           [table |-> ts[i], column |-> first_match(world, ts[i], pattern)]]])

\* flecs_get_table_record(world, table, id): table record of one table, with
\* column -1 when the table has no record for the id.
flecs_get_table_record(world, table, pattern) ==
    [table |-> table, column |-> first_match(world, table, pattern)]

\* An id record is named by its id; NULL is no id record.
flecs_id_record_tables(world, idr) ==
    IF idr = NULL THEN <<>> ELSE id_record_tables(world, idr)

\* find_tables: the id record of an id, NULL when it has no non-empty
\* tables.
find_tables(world, id) ==
    IF id_record_tables(world, id) = <<>> THEN NULL ELSE id

\* The world built by adding the entities es[i].entity with the ids
\* es[i].ids (a set) in order: a table is created when the first entity of
\* its type is added, and an entity is appended to the table of its type.
world_from(es) ==
    LET RECURSIVE add(_, _)
        add(i, tables) ==
            IF i > Len(es) THEN tables
            ELSE Let([type \in {SortSet(es[i].ids)} |->
                 Let([hits \in {{t \in DOMAIN tables : tables[t].type = type}} |->
                    IF hits = {}
                    THEN add(i + 1, Append(tables,
                            [type |-> type, entities |-> <<es[i].entity>>]))
                    ELSE add(i + 1,
                            [tables EXCEPT ![Min(hits)].entities =
                                Append(@, es[i].entity)])])])
    IN [tables |-> add(1, <<>>)]

(***************************************************************************)
(* Terms.  A term is the finalized ecs_term_t the rule compiler reads:     *)
(*   pred, subj, obj : term ids [var, entity, name, set_mask]              *)
(*   oper            : "EcsAnd", "EcsNot" or "EcsOptional"                 *)
(*   role            : "ECS_PAIR" or "0"                                   *)
(* A name of "" is the NULL name.                                          *)
(***************************************************************************)

\* ecs_term_id_is_set
ecs_term_id_is_set(term_id) == term_id.entity # 0 \/ term_id.name # ""

\* A term id that is not set.
TermIdNone ==
    [var |-> "EcsVarDefault", entity |-> 0, name |-> "", set_mask |-> {}]

\* A term id that names an entity.
TermIdEntity(e) ==
    [var |-> "EcsVarIsEntity", entity |-> e, name |-> "", set_mask |-> {}]

\* A term id that names a variable: a named variable has no entity (the
\* results of Rules_optional_w_subj_var are those of an entity of 0).
TermIdVar(name) ==
    [var |-> "EcsVarIsVariable", entity |-> 0, name |-> name,
     set_mask |-> {}]

\* The This variable.
TermIdThis ==
    [var |-> "EcsVarIsVariable", entity |-> EcsThis, name |-> "This",
     set_mask |-> {}]

\* The id of a finalized term: the pair of predicate and object when the
\* term has an object, the predicate otherwise, with the wildcard in the
\* place of a named variable (Rules_term_w_x_x_x) and This in the place of
\* the This variable (Rules_term_w_this_this_this).
term_id_of(pred, obj) ==
    LET entity_of(term_id) ==
            IF term_id.var = "EcsVarIsVariable" /\ term_id.entity = 0
            THEN EcsWildcard ELSE term_id.entity
    IN IF ecs_term_id_is_set(obj) THEN ecs_pair(entity_of(pred), entity_of(obj))
       ELSE entity_of(pred)

Term(pred, subj, obj, oper) ==
    [pred |-> pred, subj |-> subj, obj |-> obj, oper |-> oper,
     role |-> IF ecs_term_id_is_set(obj) THEN "ECS_PAIR" ELSE "0",
     id |-> term_id_of(pred, obj)]

(***************************************************************************)
(* The rule compiler.  A rule is a record                                  *)
(*   world, terms, variables, operations, subject_variable_count,          *)
(*   frame_count                                                           *)
(* variable_count and operation_count are the lengths of the sequences.    *)
(* A pointer to a variable is its position in rule.variables (0-based),    *)
(* the NULL pointer is -1.                                                 *)
(***************************************************************************)

\* The variable cap, 256 in rules.c.  It is scaled down so that the rules of
\* the model have more variables than the cap; the code compares it only
\* with subject_count in scan_variables.
ECS_RULE_MAX_VARIABLE_COUNT == 2

RULE_PAIR_PREDICATE == 1
RULE_PAIR_OBJECT == 2

EcsRuleVarKindTable == 0
EcsRuleVarKindEntity == 1
EcsRuleVarKindUnknown == 2

NULLVAR == -1

variable_count(rule) == Len(rule.variables)

operation_count(rule) == Len(rule.operations)

term_count(rule) == Len(rule.terms)

subj_is_set(term) == ecs_term_id_is_set(term.subj)

obj_is_set(term) == ecs_term_id_is_set(term.obj) \/ term.role = "ECS_PAIR"

get_var_name(name) == IF name = "This" THEN "." ELSE name

\* create_variable: the rule with the new variable appended; the new
\* variable is the last one.
create_variable(rule, kind, name) ==
    Let([cur \in {variable_count(rule) + 1} |->
    Let([var \in {[kind |-> kind,
                name |-> IF name # "" THEN get_var_name(name)
                         ELSE "_" \o ToString(cur - 1),
                id |-> cur - 1,
                depth |-> UINT8_MAX,
                marked |-> FALSE,
                occurs |-> 0]} |->
       [rule EXCEPT !.variables = Append(@, var)]])])

create_anonymous_variable(rule, kind) == create_variable(rule, kind, "")

\* find_variable: the first variable with the name and kind, NULLVAR if none.
find_variable(rule, kind, name) ==
    Let([hits \in {{i \in DOMAIN rule.variables :
                    /\ rule.variables[i].name = get_var_name(name)
                    /\ (kind = EcsRuleVarKindUnknown
                          \/ kind = rule.variables[i].kind)}} |->
       IF hits = {} THEN NULLVAR ELSE Min(hits) - 1])

\* ensure_variable: the rule (the variable itself is not used by callers).
ensure_variable(rule, kind, name) ==
    Let([var \in {find_variable(rule, kind, name)} |->
       IF var = NULLVAR THEN create_variable(rule, kind, name)
       ELSE IF rule.variables[var + 1].kind = EcsRuleVarKindUnknown
            THEN [rule EXCEPT !.variables[var + 1].kind = kind]
            ELSE rule])

term_id_is_variable(term_id) == term_id.var = "EcsVarIsVariable"

\* term_id_var_name: "" is NULL.
term_id_var_name(term_id) ==
    IF term_id.var = "EcsVarIsVariable"
    THEN IF term_id.entity = EcsThis THEN "." ELSE term_id.name
    ELSE ""

term_id_to_var(rule, id) ==
    IF id.var = "EcsVarIsVariable"
    THEN find_variable(rule, EcsRuleVarKindUnknown, term_id_var_name(id))
    ELSE NULLVAR

term_pred(rule, term) == term_id_to_var(rule, term.pred)

term_subj(rule, term) == term_id_to_var(rule, term.subj)

term_obj(rule, term) ==
    IF obj_is_set(term) THEN term_id_to_var(rule, term.obj) ELSE NULLVAR

\* A push_frame that leaves a frame unused.
push_frame_twice(rule) == [rule EXCEPT !.frame_count = @ + 2]

\* push_frame: the rule with one more frame (the frame pushed is the old
\* frame_count).
push_frame(rule) == [rule EXCEPT !.frame_count = @ + 1]

is_subject(rule, var) ==
    var # NULLVAR /\ rule.variables[var + 1].id < rule.subject_variable_count

skip_term(term) ==
    "EcsNothing" \in term.subj.set_mask \/ term.oper = "EcsNot"

(***************************************************************************)
(* Dependency depth of the variables.  The C functions update the          *)
(* variables in place; here each returns the updated rule, and the value   *)
(* it returns in C as field ret.                                           *)
(***************************************************************************)

RECURSIVE get_variable_depth(_, _, _, _)
RECURSIVE crawl_variable(_, _, _, _)
RECURSIVE get_depth_from_var(_, _, _, _)
RECURSIVE get_depth_from_term(_, _, _, _, _, _)

crawl_variable(rule0, var, root, recur) ==
    Let([count \in {term_count(rule0)} |->
    LET visit(rule, v) ==
            IF v # NULLVAR /\ v # var /\ ~rule.variables[v + 1].marked
            THEN get_variable_depth(rule, v, root, recur + 1).rule
            ELSE rule
        RECURSIVE loop(_, _)
        loop(i, rule) ==
            IF i >= count THEN rule
            ELSE Let([term \in {rule.terms[i + 1]} |->
                 Let([pred \in {term_pred(rule, term)} |->
                 Let([subj \in {term_subj(rule, term)} |->
                 Let([obj \in {term_obj(rule, term)} |->
                    IF skip_term(term) THEN loop(i + 1, rule)
                    ELSE IF var # pred /\ var # subj /\ var # obj
                    THEN loop(i + 1, rule)
                    ELSE loop(i + 1,
                              visit(visit(visit(rule, pred), subj), obj))])])])])
    IN [rule |-> loop(0, rule0), ret |-> 0]])

get_depth_from_var(rule, var, root, recur) ==
    IF var = root \/ rule.variables[var + 1].depth # UINT8_MAX
    THEN [rule |-> rule, ret |-> rule.variables[var + 1].depth + 1]
    ELSE IF rule.variables[var + 1].marked
    THEN [rule |-> rule, ret |-> 0]
    ELSE Let([r \in {get_variable_depth(rule, var, root, recur + 1)} |->
            [rule |-> r.rule,
             ret |-> IF r.ret = UINT8_MAX THEN r.ret ELSE r.ret + 1]])

get_depth_from_term(rule, cur, pred, obj, root, recur) ==
    IF pred = NULLVAR /\ obj = NULLVAR THEN [rule |-> rule, ret |-> 0]
    ELSE
      Let([p \in {IF pred # NULLVAR /\ cur # pred
               THEN Let([d \in {get_depth_from_var(rule, pred, root, recur)} |->
                       [rule |-> d.rule,
                        returned |-> d.ret = UINT8_MAX,
                        result |-> IF d.ret < UINT8_MAX THEN d.ret
                                   ELSE UINT8_MAX]])
               ELSE [rule |-> rule, returned |-> FALSE, result |-> UINT8_MAX]} |->
         IF p.returned THEN [rule |-> p.rule, ret |-> UINT8_MAX]
         ELSE IF obj # NULLVAR /\ cur # obj
         THEN Let([d \in {get_depth_from_var(p.rule, obj, root, recur)} |->
                 IF d.ret = UINT8_MAX
                 THEN [rule |-> d.rule, ret |-> UINT8_MAX]
                 ELSE [rule |-> d.rule,
                       ret |-> IF d.ret < p.result THEN d.ret ELSE p.result]])
         ELSE [rule |-> p.rule, ret |-> p.result]])

get_variable_depth(rule0, var, root, recur) ==
    Let([count \in {term_count(rule0)} |->
    Let([marked \in {[rule0 EXCEPT !.variables[var + 1].marked = TRUE]} |->
        \* first loop: the smallest depth over the terms with var as subject
    LET RECURSIVE loop1(_, _, _)
        loop1(i, rule, result) ==
            IF i >= count THEN [rule |-> rule, result |-> result]
            ELSE Let([term \in {rule.terms[i + 1]} |->
                 Let([pred0 \in {term_pred(rule, term)} |->
                 Let([subj \in {term_subj(rule, term)} |->
                 Let([obj0 \in {term_obj(rule, term)} |->
                 Let([pred \in {IF is_subject(rule, pred0) THEN pred0 ELSE NULLVAR} |->
                 Let([obj \in {IF is_subject(rule, obj0) THEN obj0 ELSE NULLVAR} |->
                    IF skip_term(term) \/ subj # var
                    THEN loop1(i + 1, rule, result)
                    ELSE Let([d \in {get_depth_from_term(rule, var, pred, obj,
                                                      root, recur)} |->
                            loop1(i + 1, d.rule,
                                  IF d.ret < result THEN d.ret ELSE result)])])])])])])]) IN
    Let([l1 \in {loop1(0, marked, UINT8_MAX)} |->
    Let([result \in {IF l1.result = UINT8_MAX THEN 0 ELSE l1.result} |->
    Let([withdepth \in {[l1.rule EXCEPT !.variables[var + 1].depth = result]} |->
    LET crawl(rule, v) ==
            IF v # NULLVAR /\ v # var
            THEN crawl_variable(rule, v, root, recur).rule
            ELSE rule
        \* second loop: follow predicate and object links
        RECURSIVE loop2(_, _)
        loop2(i, rule) ==
            IF i >= count THEN rule
            ELSE Let([term \in {rule.terms[i + 1]} |->
                 Let([subj \in {term_subj(rule, term)} |->
                 Let([pred \in {term_pred(rule, term)} |->
                 Let([obj \in {term_obj(rule, term)} |->
                    IF skip_term(term) \/ subj # var THEN loop2(i + 1, rule)
                    ELSE loop2(i + 1,
                           crawl(crawl(crawl_variable(rule, subj, root,
                                                      recur).rule,
                                       pred), obj))])])])]) IN
    Let([final \in {loop2(0, withdepth)} |->
       [rule |-> final, ret |-> final.variables[var + 1].depth]])])])])])])

\* compare_variable: -1 if v1 sorts before v2, 1 if after.  For two
\* variables of equal kind, depth and occurs it returns -1 in both orders.
compare_variable(v1, v2) ==
    IF v1.kind < v2.kind THEN -1
    ELSE IF v1.kind > v2.kind THEN 1
    ELSE IF v1.depth < v2.depth THEN -1
    ELSE IF v1.depth > v2.depth THEN 1
    ELSE IF v1.occurs < v2.occurs THEN 1
    ELSE -1

\* ecs_qsort_t with compare_variable: every arrangement of the variables in
\* which no variable stands before one that the comparison orders strictly
\* first.  Variables that compare -1 in both orders may end in either order.
qsort_variables(variables) ==
    Let([n \in {Len(variables)} |->
    Let([perms \in {{f \in [1..n -> 1..n] : \A i, j \in 1..n : i # j => f[i] # f[j]}} |->
    LET ok(f) == \A i, j \in 1..n :
                    i < j => ~(/\ compare_variable(variables[f[i]],
                                                   variables[f[j]]) = 1
                               /\ compare_variable(variables[f[j]],
                                                   variables[f[i]]) = -1)
    IN {[i \in 1..n |-> variables[f[i]]] : f \in {g \in perms : ok(g)}}])])

ensure_all_variables(rule0) ==
    Let([count \in {term_count(rule0)} |->
    LET RECURSIVE loop(_, _)
        loop(i, rule) ==
            IF i >= count THEN rule
            ELSE Let([term \in {rule.terms[i + 1]} |->
                 Let([r1 \in {IF term.pred.var = "EcsVarIsVariable"
                           THEN ensure_variable(rule, EcsRuleVarKindEntity,
                                                term_id_var_name(term.pred))
                           ELSE rule} |->
                 Let([r2 \in {IF term.subj.var = "EcsVarIsVariable"
                              /\ term.subj.entity # EcsThis
                           THEN ensure_variable(r1, EcsRuleVarKindEntity,
                                                term_id_var_name(term.subj))
                           ELSE r1} |->
                 Let([r3 \in {IF obj_is_set(term)
                              /\ term.obj.var = "EcsVarIsVariable"
                           THEN ensure_variable(r2, EcsRuleVarKindEntity,
                                                term_id_var_name(term.obj))
                           ELSE r2} |->
                    IF skip_term(term) THEN loop(i + 1, rule)
                    ELSE loop(i + 1, r3)])])])])
    IN loop(0, rule0)])

\* The loop for the unconstrained variables, with no variable found.
unconstrained_variable_none(rule) == FALSE

\* The loop of scan_variables that looks for an unconstrained variable: a
\* subject variable that get_variable_depth did not reach from the root.
unconstrained_variable(rule) ==
    \E i \in 0..(rule.subject_variable_count - 1) :
        rule.variables[i + 1].depth = UINT8_MAX

\* Step 1 of scan_variables: find all possible roots.  st holds the rule,
\* max_occur, max_occur_var and whether the loop left through `goto error`.
RECURSIVE scan_subjects(_, _, _)
scan_subjects(i, st, subject_count) ==
    IF i >= term_count(st.rule) \/ st.error THEN st
    ELSE Let([term \in {st.rule.terms[i + 1]} |->
         Let([subj_name \in {term_id_var_name(term.subj)} |->
         Let([found \in {find_variable(st.rule, EcsRuleVarKindTable,
                                    subj_name)} |->
         Let([created \in {found = NULLVAR} |->
         Let([r1 \in {IF created
                   THEN create_variable(st.rule, EcsRuleVarKindTable,
                                        subj_name)
                   ELSE st.rule} |->
         Let([subj \in {IF created THEN variable_count(r1) - 1 ELSE found} |->
         Let([occurs \in {r1.variables[subj + 1].occurs + 1} |->
         Let([r2 \in {[r1 EXCEPT !.variables[subj + 1].occurs = occurs]} |->
            IF ~term_id_is_variable(term.subj)
            THEN scan_subjects(i + 1, st, subject_count)
            ELSE IF created
                    /\ subject_count >= ECS_RULE_MAX_VARIABLE_COUNT
            THEN [st EXCEPT !.rule = r1, !.error = TRUE]
            ELSE scan_subjects(i + 1,
                   IF occurs > st.max_occur
                   THEN [st EXCEPT !.rule = r2, !.max_occur = occurs,
                            !.max_occur_var = r2.variables[subj + 1].id]
                   ELSE [st EXCEPT !.rule = r2],
                   subject_count)])])])])])])])])

\* The start of step 1.
NoRoots(rule0) ==
    [rule |-> rule0, max_occur |-> 0, max_occur_var |-> UINT8_MAX,
     error |-> FALSE]

\* The root election of scan_variables: this_var if it was found, the
\* subject variable with the most occurrences otherwise, UINT8_MAX if the
\* rule has no subject variable.
elect_root(s1, this_var) ==
    IF this_var = UINT8_MAX THEN s1.max_occur_var ELSE this_var

\* scan_variables: the set of outcomes [rule, ret, error] (ret 0 or -1, error
\* the message given to rule_error, "" if none); there is more than one
\* outcome only where the sort leaves an order open.
scan_variables(rule0) ==
    Let([count \in {term_count(rule0)} |->
    Let([subject_count \in {0} |->
    Let([this_var \in {UINT8_MAX} |->
    Let([s1 \in {scan_subjects(0, NoRoots(rule0), subject_count)} |->
    Let([counted \in {[s1.rule EXCEPT
                       !.subject_variable_count = variable_count(s1.rule)]} |->
    Let([ensured \in {ensure_all_variables(counted)} |->
        \* Variables in a term with a literal subject have depth 0
    LET RECURSIVE literal(_, _)
        literal(i, rule) ==
            IF i >= count THEN rule
            ELSE Let([term \in {rule.terms[i + 1]} |->
                 Let([pred \in {term_pred(rule, term)} |->
                 Let([obj \in {term_obj(rule, term)} |->
                 Let([r1 \in {IF pred # NULLVAR
                           THEN [rule EXCEPT !.variables[pred + 1].depth = 0]
                           ELSE rule} |->
                 Let([r2 \in {IF obj # NULLVAR
                           THEN [r1 EXCEPT !.variables[obj + 1].depth = 0]
                           ELSE r1} |->
                    IF term.subj.var = "EcsVarIsEntity"
                    THEN literal(i + 1, r2)
                    ELSE literal(i + 1, rule)])])])])]) IN
    Let([lit \in {literal(0, ensured)} |->
    Let([root_var \in {elect_root(s1, this_var)} |->
       IF s1.error THEN {[rule |-> s1.rule, ret |-> -1,
                           error |-> "too many variables in rule"]}
       ELSE IF root_var = UINT8_MAX
       THEN {[rule |-> lit, ret |-> 0, error |-> ""]}
       ELSE
    Let([d \in {get_variable_depth(lit, root_var, root_var, 0)} |->
    Let([rooted \in {[d.rule EXCEPT !.variables[root_var + 1].depth = d.ret]} |->
    Let([unconstrained \in {unconstrained_variable(rooted)} |->
    Let([no_pred \in {{i \in 0..(count - 1) :
                        /\ rooted.terms[i + 1].oper = "EcsNot"
                        /\ term_pred(rooted, rooted.terms[i + 1]) = NULLVAR
                        /\ term_id_is_variable(rooted.terms[i + 1].pred)}} |->
    Let([no_obj \in {{i \in 0..(count - 1) :
                        /\ rooted.terms[i + 1].oper = "EcsNot"
                        /\ term_obj(rooted, rooted.terms[i + 1]) = NULLVAR
                        /\ term_id_is_variable(rooted.terms[i + 1].obj)}} |->
       IF unconstrained
       THEN {[rule |-> rooted, ret |-> -1, error |-> "unconstrained variable"]}
       ELSE IF no_pred \cup no_obj # {}
       THEN {[rule |-> rooted, ret |-> -1,
              error |-> IF Min(no_pred \cup no_obj) \in no_pred
                        THEN "missing predicate variable"
                        ELSE "missing object variable"]}
       ELSE {[rule |-> [rooted EXCEPT !.variables =
                           [i \in DOMAIN sorted |->
                               [sorted[i] EXCEPT !.id = i - 1]]],
              ret |-> 0, error |-> ""] :
                sorted \in qsort_variables(rooted.variables)}])])])])])])])])])])])])])

(***************************************************************************)
(* Operations.  rule.written is the array written[] of compile_program,    *)
(* kept as the set of the variable ids that are written.  An operation is  *)
(* named by its index in rule.operations (0-based).                        *)
(***************************************************************************)

\* reg_mask & RULE_PAIR_PREDICATE, reg_mask & RULE_PAIR_OBJECT
mask_has(reg_mask, bit) == (reg_mask \div bit) % 2 = 1

\* reg_mask | bit
mask_or(reg_mask, bit) ==
    IF mask_has(reg_mask, bit) THEN reg_mask ELSE reg_mask + bit

\* reg_mask & RULE_PAIR_PREDICATE as a value
mask_and_predicate(reg_mask) == reg_mask % 2

\* The pair {0}.  pred and obj stand for the unions of reg and ent.
ZeroPair ==
    [pred |-> 0, obj |-> 0, reg_mask |-> 0, transitive |-> FALSE,
     final |-> FALSE, inclusive |-> FALSE, obj_0 |-> FALSE]

\* An operation after ecs_os_memset_t(result, 0, ecs_rule_op_t).
ZeroOp ==
    [kind |-> "EcsRuleInput", filter |-> ZeroPair, subject |-> 0,
     on_pass |-> 0, on_fail |-> 0, frame |-> 0, term |-> 0,
     r_in |-> 0, r_out |-> 0, has_in |-> FALSE, has_out |-> FALSE]

\* create_operation: the new operation is the last one.
create_operation(rule) == [rule EXCEPT !.operations = Append(@, ZeroOp)]

pair_pred(rule, pair) ==
    IF mask_has(pair.reg_mask, RULE_PAIR_PREDICATE) THEN pair.pred
    ELSE NULLVAR

pair_obj(rule, pair) ==
    IF mask_has(pair.reg_mask, RULE_PAIR_OBJECT) THEN pair.obj ELSE NULLVAR

term_to_pair(rule, term) ==
    Let([pred_id \in {term.pred.entity} |->
    Let([p \in {IF term.pred.var = "EcsVarIsVariable"
             THEN [ZeroPair EXCEPT
                     !.pred = find_variable(rule, EcsRuleVarKindEntity,
                                            term_id_var_name(term.pred)),
                     !.reg_mask = mask_or(@, RULE_PAIR_PREDICATE),
                     !.final = TRUE]
             ELSE [ZeroPair EXCEPT
                     !.pred = pred_id,
                     !.transitive =
                         ecs_has_id(rule.world, pred_id, EcsTransitive)
                           /\ obj_is_set(term),
                     !.final = ecs_has_id(rule.world, pred_id, EcsFinal),
                     !.inclusive =
                         ecs_has_id(rule.world, pred_id, EcsTransitiveSelf)]} |->
       IF ~obj_is_set(term) THEN p
       ELSE IF term.obj.var = "EcsVarIsVariable"
       THEN [p EXCEPT
               !.obj = find_variable(rule, EcsRuleVarKindEntity,
                                     term_id_var_name(term.obj)),
               !.reg_mask = mask_or(@, RULE_PAIR_OBJECT)]
       ELSE [p EXCEPT !.obj = term.obj.entity,
                      !.obj_0 = (term.obj.entity = 0)]])])

to_entity(rule, var) ==
    IF var = NULLVAR THEN NULLVAR
    ELSE IF rule.variables[var + 1].kind = EcsRuleVarKindTable
    THEN find_variable(rule, EcsRuleVarKindEntity, rule.variables[var + 1].name)
    ELSE var

\* most_specific_var: [rule, ret]; with create it may append an Each.
most_specific_var(rule, var, create) ==
    IF var = NULLVAR THEN [rule |-> rule, ret |-> NULLVAR]
    ELSE
      Let([evar \in {to_entity(rule, var)} |->
      Let([tvar \in {IF rule.variables[var + 1].kind = EcsRuleVarKindTable
                  THEN var
                  ELSE find_variable(rule, EcsRuleVarKindTable,
                                     rule.variables[var + 1].name)} |->
      Let([each \in {[ZeroOp EXCEPT
                     !.kind = "EcsRuleEach",
                     !.on_pass = operation_count(rule) + 1,
                     !.on_fail = operation_count(rule) + 1 - 2,
                     !.frame = rule.frame_count,
                     !.has_in = TRUE, !.has_out = TRUE,
                     !.r_in = tvar, !.r_out = evar]} |->
         IF evar = NULLVAR THEN [rule |-> rule, ret |-> var]
         ELSE IF tvar # NULLVAR /\ tvar \in rule.written
         THEN IF evar \in rule.written THEN [rule |-> rule, ret |-> evar]
              ELSE IF create
              THEN [rule |-> push_frame(
                        [rule EXCEPT !.operations = Append(@, each),
                                     !.written = @ \cup {evar}]),
                    ret |-> evar]
              ELSE [rule |-> rule, ret |-> tvar]
         ELSE IF evar \in rule.written THEN [rule |-> rule, ret |-> evar]
         ELSE [rule |-> rule, ret |-> var]])])])

get_most_specific_var(rule, var) == most_specific_var(rule, var, FALSE).ret

ensure_most_specific_var(rule, var) == most_specific_var(rule, var, TRUE)

ensure_entity_written(rule, var) ==
    IF var = NULLVAR THEN [rule |-> rule, ret |-> NULLVAR]
    ELSE ensure_most_specific_var(rule, var)

\* An insert_operation whose on_pass is one label further than the next
\* operation.
insert_operation_skip(rule, term_index) ==
    Let([p0 \in {IF term_index # -1
              THEN term_to_pair(rule, rule.terms[term_index + 1])
              ELSE ZeroPair} |->
    Let([p1 \in {IF term_index # -1 /\ mask_has(p0.reg_mask, RULE_PAIR_PREDICATE)
              THEN [p0 EXCEPT !.pred = get_most_specific_var(rule, p0.pred)]
              ELSE p0} |->
    Let([pair \in {IF term_index # -1 /\ mask_has(p1.reg_mask, RULE_PAIR_OBJECT)
                THEN [p1 EXCEPT !.obj = get_most_specific_var(rule, p1.obj)]
                ELSE p1} |->
    Let([created \in {create_operation(rule)} |->
    Let([op \in {[ZeroOp EXCEPT
                 !.on_pass = operation_count(created) + 1,
                 !.on_fail = operation_count(created) - 2,
                 !.frame = rule.frame_count,
                 !.filter = pair,
                 !.term = term_index]} |->
       [created EXCEPT !.operations[operation_count(created)] = op]])])])])])

\* insert_operation: the new operation is the last one.
insert_operation(rule, term_index) ==
    Let([p0 \in {IF term_index # -1
              THEN term_to_pair(rule, rule.terms[term_index + 1])
              ELSE ZeroPair} |->
    Let([p1 \in {IF term_index # -1 /\ mask_has(p0.reg_mask, RULE_PAIR_PREDICATE)
              THEN [p0 EXCEPT !.pred = get_most_specific_var(rule, p0.pred)]
              ELSE p0} |->
    Let([pair \in {IF term_index # -1 /\ mask_has(p1.reg_mask, RULE_PAIR_OBJECT)
                THEN [p1 EXCEPT !.obj = get_most_specific_var(rule, p1.obj)]
                ELSE p1} |->
    Let([created \in {create_operation(rule)} |->
    Let([op \in {[ZeroOp EXCEPT
                 !.on_pass = operation_count(created),
                 !.on_fail = operation_count(created) - 2,
                 !.frame = rule.frame_count,
                 !.filter = pair,
                 !.term = term_index]} |->
       [created EXCEPT !.operations[operation_count(created)] = op]])])])])])

insert_input(rule) ==
    push_frame([rule EXCEPT !.operations =
        Append(@, [ZeroOp EXCEPT !.kind = "EcsRuleInput",
                                 !.on_pass = 1, !.on_fail = -1])])

\* An insert_yield that puts Yield in the frame of Input.
insert_yield_frame0(rule) ==
    Let([evar \in {find_variable(rule, EcsRuleVarKindEntity, ".")} |->
    Let([var \in {IF evar = NULLVAR
               THEN find_variable(rule, EcsRuleVarKindTable, ".")
               ELSE evar} |->
    Let([op \in {[ZeroOp EXCEPT
                 !.kind = "EcsRuleYield",
                 !.has_in = TRUE,
                 !.on_fail = operation_count(rule) + 1 - 2,
                 !.r_in = IF var = NULLVAR THEN UINT8_MAX ELSE var,
                 !.frame = 0]} |->
       push_frame([rule EXCEPT !.operations = Append(@, op)])])])])

insert_yield(rule) ==
    Let([evar \in {find_variable(rule, EcsRuleVarKindEntity, ".")} |->
    Let([var \in {IF evar = NULLVAR
               THEN find_variable(rule, EcsRuleVarKindTable, ".")
               ELSE evar} |->
    Let([op \in {[ZeroOp EXCEPT
                 !.kind = "EcsRuleYield",
                 !.has_in = TRUE,
                 !.on_fail = operation_count(rule) + 1 - 2,
                 !.r_in = IF var = NULLVAR THEN UINT8_MAX ELSE var,
                 !.frame = rule.frame_count]} |->
       push_frame([rule EXCEPT !.operations = Append(@, op)])])])])

\* insert_inclusive_set: out is a variable, pair is passed by value, c is
\* the term.
insert_inclusive_set(rule, op_kind, out, pair, c, inclusive) ==
    Let([setjmp_lbl \in {operation_count(rule)} |->
    Let([store_lbl \in {setjmp_lbl + 1} |->
    Let([set_lbl \in {IF inclusive THEN setjmp_lbl + 2 ELSE setjmp_lbl} |->
    Let([next_op \in {IF inclusive THEN setjmp_lbl + 4 ELSE set_lbl + 1} |->
    Let([prev_op \in {IF inclusive THEN setjmp_lbl - 1 ELSE set_lbl - 1} |->
    Let([r3 \in {IF inclusive
              THEN insert_operation(
                     insert_operation(insert_operation(rule, -1), -1), -1)
              ELSE rule} |->
    Let([r4 \in {insert_operation(r3, -1)} |->
    Let([pred \in {pair_pred(r4, pair)} |->
    Let([obj \in {pair_obj(r4, pair)} |->
        \* the filter of the Store and of the set operation
    LET f1(filter) ==
            IF pred = NULLVAR THEN [filter EXCEPT !.pred = pair.pred]
            ELSE [filter EXCEPT
                    !.pred = r4.variables[pred + 1].id,
                    !.reg_mask = mask_or(@, RULE_PAIR_PREDICATE)]
        f2(filter) ==
            IF obj = NULLVAR THEN [filter EXCEPT !.obj = pair.obj]
            ELSE [filter EXCEPT
                    !.obj = r4.variables[obj + 1].id,
                    !.reg_mask = mask_or(@, RULE_PAIR_OBJECT)] IN
    Let([set0 \in {r4.operations[set_lbl + 1]} |->
    Let([set \in {[set0 EXCEPT
                  !.kind = op_kind,
                  !.on_pass = next_op,
                  !.on_fail = prev_op,
                  !.has_out = TRUE,
                  !.r_out = r4.variables[out + 1].id,
                  !.term = c,
                  !.filter = f2(f1(@))]} |->
       IF ~inclusive
       THEN [r4 EXCEPT !.operations[set_lbl + 1] = set,
                       !.written = @ \cup {r4.variables[out + 1].id}]
       ELSE
    Let([setjmp \in {[r4.operations[setjmp_lbl + 1] EXCEPT
                     !.kind = "EcsRuleSetJmp",
                     !.on_pass = store_lbl,
                     !.on_fail = set_lbl]} |->
    Let([store0 \in {r4.operations[store_lbl + 1]} |->
    Let([store \in {[store0 EXCEPT
                    !.kind = "EcsRuleStore",
                    !.on_pass = next_op,
                    !.on_fail = setjmp_lbl,
                    !.has_in = TRUE,
                    !.has_out = TRUE,
                    !.r_out = r4.variables[out + 1].id,
                    !.term = c,
                    !.r_in = IF obj = NULLVAR THEN UINT8_MAX
                             ELSE r4.variables[obj + 1].id,
                    !.subject = IF obj = NULLVAR
                                THEN ecs_get_alive(r4.world, pair.obj)
                                ELSE @,
                    !.filter = f2(f1(@))]} |->
    Let([jump \in {[r4.operations[setjmp_lbl + 4] EXCEPT
                   !.kind = "EcsRuleJump",
                   !.on_pass = setjmp_lbl,
                   !.on_fail = -1]} |->
       [r4 EXCEPT !.operations[setjmp_lbl + 1] = setjmp,
                  !.operations[store_lbl + 1] = store,
                  !.operations[set_lbl + 1] = set,
                  !.operations[setjmp_lbl + 4] = jump,
                  !.written = @ \cup {r4.variables[out + 1].id}]])])])])])])])])])])])])])])])

\* store_inclusive_set: [rule, ret], ret the entity variable of the set.
store_inclusive_set(rule, op_kind, pair, inclusive) ==
    Let([var_kind \in {IF op_kind = "EcsRuleSuperSet" THEN EcsRuleVarKindEntity
                    ELSE EcsRuleVarKindTable} |->
    Let([r1 \in {create_anonymous_variable(rule, var_kind)} |->
    Let([av0 \in {variable_count(r1) - 1} |->
    Let([r2 \in {IF var_kind = EcsRuleVarKindTable
              THEN create_variable(r1, EcsRuleVarKindEntity,
                                   r1.variables[av0 + 1].name)
              ELSE r1} |->
    Let([ave \in {variable_count(r2) - 1} |->
    Let([av \in {IF var_kind = EcsRuleVarKindTable
              THEN r2.variables[ave + 1].id - 1
              ELSE av0} |->
    Let([r3 \in {insert_inclusive_set(r2, op_kind, av, pair, -1, inclusive)} |->
       ensure_entity_written(r3, av)])])])])])])])

is_known(rule, var) == var = NULLVAR \/ var \in rule.written

is_pair_known(rule, pair) ==
    /\ is_known(rule, pair_pred(rule, pair))
    /\ is_known(rule, pair_obj(rule, pair))

\* set_input_to_subj and set_output_to_subj return the operation.
set_input_to_subj(rule, op, term, var) ==
    IF var = NULLVAR
    THEN [op EXCEPT !.has_in = TRUE, !.r_in = UINT8_MAX,
                    !.subject = term.subj.entity]
    ELSE [op EXCEPT !.has_in = TRUE, !.r_in = rule.variables[var + 1].id]

set_output_to_subj(rule, op, term, var) ==
    IF var = NULLVAR
    THEN [op EXCEPT !.has_out = TRUE, !.r_out = UINT8_MAX,
                    !.subject = term.subj.entity]
    ELSE [op EXCEPT !.has_out = TRUE, !.r_out = rule.variables[var + 1].id]

\* insert_select_or_with: has_pair tells whether pair is given (non-NULL).
insert_select_or_with(rule, c, term, subj0, has_pair, pair) ==
    Let([wildcard_subj \in {term.subj.entity = EcsWildcard} |->
    Let([evar0 \in {to_entity(rule, subj0)} |->
    Let([tvar0 \in {IF subj0 # NULLVAR
                    /\ rule.variables[subj0 + 1].kind = EcsRuleVarKindTable
                 THEN subj0 ELSE NULLVAR} |->
    Let([var \in {IF tvar0 # NULLVAR /\ evar0 = NULLVAR THEN tvar0 ELSE evar0} |->
    Let([lbl_start \in {operation_count(rule)} |->
    Let([filter \in {IF has_pair THEN pair ELSE term_to_pair(rule, term)} |->
    Let([eval_subject_supersets \in {
            /\ var = NULLVAR /\ ~wildcard_subj
            /\ (~filter.transitive \/ filter.pred # EcsIsA)} |->
    Let([isa_pair \in {[ZeroPair EXCEPT !.pred = EcsIsA,
                                     !.obj = term.subj.entity]} |->
    Let([st \in {IF eval_subject_supersets
              THEN store_inclusive_set(rule, "EcsRuleSuperSet", isa_pair, TRUE)
              ELSE [rule |-> rule, ret |-> subj0]} |->
    Let([subj \in {st.ret} |->
    Let([evar \in {IF eval_subject_supersets THEN st.ret ELSE evar0} |->
    Let([tvar \in {IF eval_subject_supersets THEN NULLVAR ELSE tvar0} |->
    Let([r1 \in {IF ~has_pair THEN insert_operation(st.rule, c)
              ELSE Let([r \in {insert_operation(st.rule, -1)} |->
                      [r EXCEPT !.operations[operation_count(r)] =
                          [@ EXCEPT !.filter = pair, !.term = c]]])} |->
    Let([idx \in {operation_count(r1)} |->
    Let([op0 \in {r1.operations[idx]} |->
    Let([select \in {~(evar # NULLVAR /\ is_known(r1, evar))
                  /\ ~(tvar # NULLVAR /\ is_known(r1, tvar))
                  /\ ~(tvar = NULLVAR /\ evar = NULLVAR /\ ~wildcard_subj)} |->
    Let([op \in {IF evar # NULLVAR /\ is_known(r1, evar)
              THEN set_input_to_subj(r1,
                     [op0 EXCEPT !.kind = "EcsRuleWith",
                                 !.r_in = r1.variables[evar + 1].id],
                     term, subj)
              ELSE IF tvar # NULLVAR /\ is_known(r1, tvar)
              THEN set_input_to_subj(r1,
                     [op0 EXCEPT !.kind = "EcsRuleWith",
                                 !.r_in = r1.variables[tvar + 1].id],
                     term, subj)
              ELSE IF tvar = NULLVAR /\ evar = NULLVAR /\ ~wildcard_subj
              THEN set_input_to_subj(r1, [op0 EXCEPT !.kind = "EcsRuleWith"],
                                     term, subj)
              ELSE IF ~wildcard_subj
              THEN set_output_to_subj(r1,
                     [op0 EXCEPT !.kind = "EcsRuleSelect"], term, subj)
              ELSE [op0 EXCEPT !.kind = "EcsRuleSelect"]} |->
    Let([r2 \in {[r1 EXCEPT
                 !.operations[idx] = op,
                 !.written = IF select /\ ~wildcard_subj
                             THEN @ \cup {r1.variables[subj + 1].id} ELSE @]} |->
    Let([r3 \in {IF eval_subject_supersets /\ is_pair_known(r2, op.filter)
              THEN Let([r \in {insert_operation(r2, -1)} |->
                      [r EXCEPT !.operations[operation_count(r)] =
                          [@ EXCEPT !.kind = "EcsRuleSetJmp",
                                    !.on_pass = operation_count(r),
                                    !.on_fail = lbl_start - 1]]])
              ELSE r2} |->
    Let([last \in {r3.operations[operation_count(r3)]} |->
       [r3 EXCEPT !.written =
           (@ \cup (IF mask_has(last.filter.reg_mask, RULE_PAIR_PREDICATE)
                    THEN {last.filter.pred} ELSE {}))
              \cup (IF mask_has(last.filter.reg_mask, RULE_PAIR_OBJECT)
                    THEN {last.filter.obj} ELSE {})]])])])])])])])])])])])])])])])])])])])])

\* prepare_predicate: [rule, pair], the pair is updated in place in C.
prepare_predicate(rule, pair) ==
    IF ~pair.final
    THEN Let([isa_pair \in {[ZeroPair EXCEPT !.pred = EcsIsA, !.obj = pair.pred]} |->
         Let([st \in {store_inclusive_set(rule, "EcsRuleSubSet", isa_pair, TRUE)} |->
            [rule |-> st.rule,
             pair |-> [pair EXCEPT
                         !.pred = st.rule.variables[st.ret + 1].id,
                         !.reg_mask = mask_or(@, RULE_PAIR_PREDICATE)]]])])
    ELSE [rule |-> rule, pair |-> pair]

insert_term_2(rule, term, filter, c) ==
    Let([subj \in {get_most_specific_var(rule, term_subj(rule, term))} |->
    Let([obj \in {get_most_specific_var(rule, term_obj(rule, term))} |->

    IF ~filter.transitive
    THEN insert_select_or_with(rule, c, term, subj, TRUE, filter)
    ELSE IF is_known(rule, subj)
    THEN IF is_known(rule, obj)
         THEN Let([st \in {store_inclusive_set(rule, "EcsRuleSubSet", filter, TRUE)} |->
              Let([pair \in {[filter EXCEPT
                             !.obj = st.rule.variables[st.ret + 1].id,
                             !.reg_mask = mask_or(@, RULE_PAIR_OBJECT)]} |->
                 insert_select_or_with(st.rule, c, term, subj, TRUE, pair)])])
         ELSE IF subj = NULLVAR
                 \/ rule.variables[subj + 1].kind = EcsRuleVarKindEntity
         THEN \* If subject is literal, find supersets for subject
              Let([eobj \in {to_entity(rule, obj)} |->
              Let([set_pair \in {
                      IF subj # NULLVAR
                      THEN [filter EXCEPT
                              !.obj = rule.variables[subj + 1].id,
                              !.reg_mask = mask_or(mask_and_predicate(@),
                                                   RULE_PAIR_OBJECT)]
                      ELSE [filter EXCEPT
                              !.obj = term.subj.entity,
                              !.reg_mask = mask_and_predicate(@)]} |->
                 insert_inclusive_set(rule, "EcsRuleSuperSet", eobj, set_pair,
                                      c, filter.inclusive)])])
         ELSE \* subject is a table variable
              Let([r1 \in {create_anonymous_variable(rule, EcsRuleVarKindEntity)} |->
              Let([av \in {variable_count(r1) - 1} |->
              Let([eobj \in {to_entity(r1, obj)} |->
              Let([set_pair \in {[filter EXCEPT
                                 !.obj = r1.variables[av + 1].id,
                                 !.reg_mask = mask_or(@, RULE_PAIR_OBJECT)]} |->
              Let([r2 \in {insert_select_or_with(r1, c, term, subj, TRUE,
                                              set_pair)} |->
                 insert_inclusive_set(push_frame(r2), "EcsRuleSuperSet", eobj,
                                      set_pair, c, TRUE)])])])])])
    ELSE \* subj is not known
         IF is_known(rule, obj)
         THEN Let([set_pair \in {
                      IF obj # NULLVAR
                      THEN [filter EXCEPT
                              !.obj = rule.variables[obj + 1].id,
                              !.reg_mask = mask_or(mask_and_predicate(@),
                                                   RULE_PAIR_OBJECT)]
                      ELSE [filter EXCEPT
                              !.obj = term.obj.entity,
                              !.reg_mask = mask_and_predicate(@)]} |->
                 insert_inclusive_set(rule, "EcsRuleSubSet", subj, set_pair, c,
                                      filter.inclusive)])
         ELSE IF subj = obj
         THEN insert_select_or_with(rule, c, term, subj, TRUE, filter)
         ELSE Let([r1 \in {create_anonymous_variable(rule, EcsRuleVarKindEntity)} |->
              Let([av \in {variable_count(r1) - 1} |->
              Let([eobj \in {to_entity(r1, obj)} |->
              Let([r2 \in {insert_operation(r1, -1)} |->
              Let([idx \in {operation_count(r2)} |->
              Let([op0 \in {set_output_to_subj(r2,
                            [r2.operations[idx] EXCEPT
                                !.kind = "EcsRuleSelect"], term, subj)} |->
              Let([op \in {[op0 EXCEPT
                           !.filter.pred = filter.pred,
                           !.filter.obj = r2.variables[av + 1].id,
                           !.filter.reg_mask =
                               mask_or(filter.reg_mask, RULE_PAIR_OBJECT)]} |->
              Let([r3 \in {[r2 EXCEPT
                           !.operations[idx] = op,
                           !.written = @ \cup {r2.variables[subj + 1].id,
                                               r2.variables[av + 1].id}]} |->
                 insert_inclusive_set(push_frame(r3), "EcsRuleSuperSet", eobj,
                                      op.filter, c, TRUE)])])])])])])])])])])

insert_term_1(rule, term, filter, c) ==
    insert_select_or_with(rule, c, term,
        get_most_specific_var(rule, term_subj(rule, term)), TRUE, filter)

insert_term(rule, term, c) ==
    Let([obj_set \in {obj_is_set(term)} |->
    Let([r1 \in {ensure_most_specific_var(rule, term_pred(rule, term)).rule} |->
    Let([r2 \in {IF obj_set
              THEN ensure_most_specific_var(r1, term_obj(r1, term)).rule
              ELSE r1} |->
    Let([prev \in {operation_count(r2)} |->
    Let([r3 \in {IF term.oper = "EcsNot"
              THEN Let([r \in {insert_operation(r2, -1)} |->
                      [r EXCEPT !.operations[operation_count(r)] =
                          [@ EXCEPT !.kind = "EcsRuleNot",
                                    !.has_in = FALSE, !.has_out = FALSE]]])
              ELSE r2} |->
    Let([pp \in {prepare_predicate(r3, term_to_pair(r3, term))} |->
    Let([r4 \in {IF subj_is_set(term) /\ ~obj_set
              THEN insert_term_1(pp.rule, term, pp.pair, c)
              ELSE IF obj_set THEN insert_term_2(pp.rule, term, pp.pair, c)
              ELSE pp.rule} |->
    Let([r5 \in {IF term.oper = "EcsNot"
              THEN Let([r \in {insert_operation(r4, -1)} |->
                      [r EXCEPT
                         !.operations[operation_count(r)] =
                             [@ EXCEPT !.kind = "EcsRuleNot",
                                       !.has_in = FALSE, !.has_out = FALSE,
                                       !.on_pass = prev - 1,
                                       !.on_fail = prev - 1],
                         !.operations[prev + 1].on_fail = operation_count(r)]])
              ELSE r4} |->
        \* the Optional term: the trailing Not and the exit operation
    Let([r6 \in {IF term.oper = "EcsOptional"
              THEN Let([r \in {insert_operation(r5, -1)} |->
                   Let([n \in {operation_count(r)} |->
                   Let([rj \in {[r EXCEPT !.operations[n] =
                                [@ EXCEPT !.kind = "EcsRuleNot",
                                          !.has_in = FALSE, !.has_out = FALSE,
                                          !.on_pass = n,
                                          !.on_fail = prev - 1]]} |->
                   LET RECURSIVE exit(_, _, _)
                       exit(i, min_fail, exit_op) ==
                           IF i >= n THEN exit_op
                           ELSE Let([on_fail \in {rj.operations[i + 1].on_fail} |->
                                   IF min_fail = -1
                                      \/ (on_fail >= 0 /\ on_fail < min_fail)
                                   THEN exit(i + 1, on_fail, i)
                                   ELSE exit(i + 1, min_fail, exit_op)]) IN
                   Let([exit_op \in {exit(prev, -1, -1)} |->
                      [rj EXCEPT !.operations[exit_op + 1].on_fail = n - 1]])])])])
              ELSE r5} |->
       push_frame(r6)])])])])])])])])])

compile_program(rule0) ==
    Let([count \in {term_count(rule0)} |->
        \* First insert all terms that do not have a variable subject
    LET RECURSIVE literals(_, _)
        literals(c, rule) ==
            IF c >= count THEN rule
            ELSE Let([term \in {rule.terms[c + 1]} |->
                    IF \/ skip_term(term)
                       \/ term.oper = "EcsOptional"
                       \/ term_subj(rule, term) # NULLVAR
                       \/ term.subj.entity = EcsWildcard
                    THEN literals(c + 1, rule)
                    ELSE literals(c + 1, insert_term(rule, term, c))])
        \* Insert variables based on dependency order
        RECURSIVE by_subject(_, _, _)
        by_subject(v, c, rule) ==
            IF v >= rule.subject_variable_count THEN rule
            ELSE IF c >= count THEN by_subject(v + 1, 0, rule)
            ELSE Let([term \in {rule.terms[c + 1]} |->
                    IF \/ skip_term(term)
                       \/ term.oper = "EcsOptional"
                       \/ term_subj(rule, term) # v
                    THEN by_subject(v, c + 1, rule)
                    ELSE by_subject(v, c + 1, insert_term(rule, term, c))])
        \* Insert terms with wildcard subject, Not terms, Optional terms
        RECURSIVE rest(_, _, _)
        rest(c, rule, which) ==
            IF c >= count THEN rule
            ELSE Let([term \in {rule.terms[c + 1]} |->
                 Let([take \in {CASE which = "wildcard" ->
                                      term.subj.entity = EcsWildcard
                               [] which = "not" -> term.oper = "EcsNot"
                               [] which = "optional" ->
                                      term.oper = "EcsOptional"} |->
                    IF take THEN rest(c + 1, insert_term(rule, term, c), which)
                    ELSE rest(c + 1, rule, which)])]) IN
    Let([r1 \in {literals(0, insert_input(rule0))} |->
    Let([r2 \in {by_subject(0, 0, r1)} |->
    Let([r3 \in {rest(0, r2, "wildcard")} |->
    Let([r4 \in {rest(0, r3, "not")} |->
    Let([r5 \in {rest(0, r4, "optional")} |->
        \* Make sure that all entity variables are written
    LET RECURSIVE entities(_, _)
        entities(v, rule) ==
            IF v >= variable_count(rule) THEN rule
            ELSE IF v \in rule.written THEN entities(v + 1, rule)
            ELSE Let([table_var \in {find_variable(rule, EcsRuleVarKindTable,
                                                rule.variables[v + 1].name)} |->
                 Let([r \in {insert_operation(rule, -1)} |->
                 Let([each \in {[r.operations[operation_count(r)] EXCEPT
                                !.kind = "EcsRuleEach",
                                !.r_in = IF table_var = NULLVAR THEN NULLVAR
                                         ELSE r.variables[table_var + 1].id,
                                !.r_out = r.variables[v + 1].id,
                                !.frame = r.frame_count,
                                !.has_in = TRUE, !.has_out = TRUE]} |->
                    entities(v + 1, push_frame(
                        [r EXCEPT !.operations[operation_count(r)] = each,
                                  !.written = @ \cup {r.variables[v + 1].id}]))])])]) IN
    Let([r6 \in {entities(r5.subject_variable_count, r5)} |->
       insert_yield(r6)])])])])])])])

\* create_variable_name_array: "" is NULL.
create_variable_name_array(rule) ==
    [i \in DOMAIN rule.variables |->
        IF rule.variables[i].kind # EcsRuleVarKindEntity THEN ""
        ELSE rule.variables[i].name]

\* The rule before scan_variables.
EmptyRule(world, terms) ==
    [world |-> world, terms |-> terms, variables |-> <<>>,
     operations |-> <<>>, subject_variable_count |-> 0, frame_count |-> 0,
     written |-> {}, variable_names |-> <<>>, subject_variables |-> <<>>]

\* term_to_pair reads var->id of the variable find_variable returned for a
\* variable predicate or object; the variable is NULL for some term of the
\* rule (the assert before the read is compiled out of release builds).
derefs_null_variable(rule) ==
    \E t \in DOMAIN rule.terms :
        \/ /\ rule.terms[t].pred.var = "EcsVarIsVariable"
           /\ find_variable(rule, EcsRuleVarKindEntity,
                            term_id_var_name(rule.terms[t].pred)) = NULLVAR
        \/ /\ obj_is_set(rule.terms[t])
           /\ rule.terms[t].obj.var = "EcsVarIsVariable"
           /\ find_variable(rule, EcsRuleVarKindEntity,
                            term_id_var_name(rule.terms[t].obj)) = NULLVAR

\* ecs_rule_init: the set of the rules it can return; the empty set when it
\* returns NULL or does not return.
ecs_rule_init(world, terms) ==
    Let([count \in {Len(terms)} |->
    Let([only_not \in {\A i \in 1..count : terms[i].oper = "EcsNot"} |->
    LET subject_variable(rule, i) ==
            Let([subj \in {IF term_id_is_variable(terms[i].subj)
                        THEN find_variable(rule, EcsRuleVarKindEntity,
                                           term_id_var_name(terms[i].subj))
                        ELSE NULLVAR} |->
               IF subj # NULLVAR THEN rule.variables[subj + 1].id ELSE -1])
        finish(rule) ==
            [rule EXCEPT
               !.variable_names = create_variable_name_array(rule),
               !.subject_variables =
                   [i \in 1..count |-> subject_variable(rule, i)]]
    IN IF count = 0 \/ only_not THEN {}
       ELSE {finish(compile_program(s.rule)) :
                s \in {x \in scan_variables(EmptyRule(world, terms)) :
                          x.ret = 0 /\ ~derefs_null_variable(x.rule)}}])])

\* The NULL that ecs_rule_init returns on its error path, after
\* ecs_rule_fini released the partially built rule; it is kept together
\* with the arguments of the call, the message given to rule_error and the
\* variables of the rule when the error was found.
NullRule(rule, error) ==
    [world |-> rule.world, terms |-> rule.terms, returned |-> "NULL",
     error |-> error, variables |-> rule.variables,
     subject_variable_count |-> rule.subject_variable_count]

\* ecs_rule_init did not return: compile_program ran into undefined
\* behaviour (an abort on the assert, or the read through NULL).
NoReturn(world, terms) ==
    [world |-> world, terms |-> terms, returned |-> "undefined"]

\* ecs_rule_init returned a rule.
rule_is_rule(r) == "returned" \notin DOMAIN r

rule_is_null(r) == ~rule_is_rule(r) /\ r.returned = "NULL"

\* An ecs_rule_init that returns the rule it has built so far instead of
\* taking the error path.
rule_init_partial(world, terms) == {EmptyRule(world, terms)}

\* Every outcome of ecs_rule_init: the rules it can return, NULL when it
\* can take the error path, and no return when it can run into undefined
\* behaviour.
rule_init_returns(world, terms) ==
    IF Len(terms) = 0
    THEN {NullRule(EmptyRule(world, terms), "rule has no terms")}
    ELSE IF \A i \in DOMAIN terms : terms[i].oper = "EcsNot"
    THEN {NullRule(EmptyRule(world, terms),
                   "rule cannot only have terms with Not operator")}
    ELSE ecs_rule_init(world, terms)
         \cup {NullRule(x.rule, x.error) :
                 x \in {y \in scan_variables(EmptyRule(world, terms)) :
                           y.ret # 0}}
         \cup {NoReturn(world, terms) :
                 x \in {y \in scan_variables(EmptyRule(world, terms)) :
                           y.ret = 0 /\ derefs_null_variable(y.rule)}}

(***************************************************************************)
(* The iterator.  An iterator is a record                                  *)
(*   op, redo        : iter->op, iter->redo                                *)
(*   registers       : registers[frame + 1][r + 1], a register is          *)
(*                     [table, offset, count, entity]                      *)
(*   columns         : the flat array, columns[frame * term_count + t + 1] *)
(*   op_ctx          : op_ctx[op_index + 1]                                *)
(*   variables       : it->variables                                       *)
(*   ids, subjects   : the public arrays of the ecs_iter_t                 *)
(*   columns_frame   : the frame iter->columns points into                 *)
(*   table, offset, count : what flecs_iter_populate_data published        *)
(*   is_valid        : it->is_valid                                        *)
(*   init_frames     : the frames whose registers and columns have been    *)
(*                     written since the arrays were allocated             *)
(* Memory returned by malloc holds Garbage until it is written.            *)
(***************************************************************************)

Garbage == -99

\* Number of frames of the alloc-free DFS stack of SubSet and SuperSet.
StorageSize == 16

UninitReg ==
    [table |-> Garbage, offset |-> Garbage, count |-> Garbage,
     entity |-> Garbage]

\* The operation context after calloc.  The fields of the union members
\* are kept side by side; an operation only uses those of its own kind.
ZeroOpCtx ==
    [idr |-> NULL, table_index |-> 0, row |-> 0, label |-> 0, sp |-> 0,
     stack |-> <<>>]

\* ecs_check(ecs_is_valid(world, entity)) followed by regs[r].entity =
\* entity: the register is left alone when the check fails.
entity_reg_set(rule, regs, r, entity) ==
    IF ecs_is_valid(rule.world, entity)
    THEN [regs EXCEPT ![r + 1].entity = entity]
    ELSE regs

entity_reg_get(rule, regs, r) ==
    Let([e \in {regs[r + 1].entity} |->
       IF e = 0 THEN EcsWildcard
       ELSE IF ecs_is_valid(rule.world, e) THEN e
       ELSE 0])

table_reg_set(rule, regs, r, table) ==
    [regs EXCEPT ![r + 1] =
        [table |-> table, offset |-> 0, count |-> 0, entity |-> 0]]

table_reg_get(rule, regs, r) == regs[r + 1].table

table_from_entity(world, e) == ecs_eis_get(world, e).table

reg_get_entity(rule, op, regs, r) ==
    IF r = UINT8_MAX
    THEN IF ecs_is_valid(rule.world, op.subject) THEN op.subject ELSE 0
    ELSE IF rule.variables[r + 1].kind = EcsRuleVarKindTable
    THEN Let([table \in {table_reg_get(rule, regs, r)} |->
         Let([offset \in {regs[r + 1].offset} |->
         Let([e \in {IF table # NULL /\ table # Garbage /\ offset >= 0
                     /\ offset < ecs_table_count(rule.world, table)
                  THEN table_entities(rule.world, table)[offset + 1]
                  ELSE 0} |->
            IF ecs_is_valid(rule.world, e) THEN e ELSE 0])])])
    ELSE IF rule.variables[r + 1].kind = EcsRuleVarKindEntity
    THEN entity_reg_get(rule, regs, r)
    ELSE 0

reg_get_table(rule, op, regs, r) ==
    IF r = UINT8_MAX
    THEN IF ecs_is_valid(rule.world, op.subject)
         THEN table_from_entity(rule.world, op.subject) ELSE NULL
    ELSE IF rule.variables[r + 1].kind = EcsRuleVarKindTable
    THEN table_reg_get(rule, regs, r)
    ELSE IF rule.variables[r + 1].kind = EcsRuleVarKindEntity
    THEN table_from_entity(rule.world, entity_reg_get(rule, regs, r))
    ELSE NULL

reg_set_entity(rule, regs, r, entity) ==
    IF rule.variables[r + 1].kind = EcsRuleVarKindTable
    THEN IF ~ecs_is_valid(rule.world, entity) THEN regs
         ELSE Let([record \in {ecs_eis_get(rule.world, entity)} |->
                 IF record.table = NULL
                 THEN [regs EXCEPT ![r + 1] =
                         [table |-> NULL, offset |-> 0, count |-> 0,
                          entity |-> entity]]
                 ELSE [regs EXCEPT ![r + 1] =
                         [table |-> record.table, offset |-> record.row,
                          count |-> 1, entity |-> 0]]])
    ELSE entity_reg_set(rule, regs, r, entity)

get_register_frame(it, frame) == it.registers[frame + 1]

get_registers(it, op) == get_register_frame(it, op.frame)

\* rule_get_columns_frame: the index in it.columns of the frame's first
\* column (0-based).
rule_get_columns_frame(rule, frame) == frame * term_count(rule)

rule_get_columns(rule, op) == rule_get_columns_frame(rule, op.frame)

\* The filter {0} with lo_var and hi_var -1.
ZeroFilter ==
    [mask |-> 0, wildcard |-> FALSE, pred_wildcard |-> FALSE,
     obj_wildcard |-> FALSE, same_var |-> FALSE, hi_var |-> -1,
     lo_var |-> -1]

pair_to_filter(rule, it, op, pair) ==
    Let([regs \in {get_register_frame(it, op.frame - 1)} |->
    Let([has_obj \in {mask_has(pair.reg_mask, RULE_PAIR_OBJECT)} |->
    Let([has_pred \in {mask_has(pair.reg_mask, RULE_PAIR_PREDICATE)} |->
    Let([obj \in {IF has_obj
               THEN ecs_entity_t_lo(entity_reg_get(rule, regs, pair.obj))
               ELSE pair.obj} |->
    Let([pred \in {IF has_pred
                THEN ecs_entity_t_lo(entity_reg_get(rule, regs, pair.pred))
                ELSE pair.pred} |->
    Let([f1 \in {IF has_obj /\ obj = EcsWildcard
              THEN [ZeroFilter EXCEPT !.wildcard = TRUE,
                                      !.obj_wildcard = TRUE,
                                      !.lo_var = pair.obj]
              ELSE ZeroFilter} |->
    Let([f2 \in {IF has_pred /\ pred = EcsWildcard
              THEN [f1 EXCEPT
                      !.same_var = IF f1.wildcard THEN pair.pred = pair.obj
                                   ELSE @,
                      !.wildcard = TRUE,
                      !.pred_wildcard = TRUE,
                      !.hi_var = IF obj # 0 THEN pair.pred ELSE @,
                      !.lo_var = IF obj # 0 THEN @ ELSE pair.pred]
              ELSE f1} |->
       [f2 EXCEPT !.mask = IF obj = 0 /\ ~pair.obj_0 THEN pred
                           ELSE ecs_pair(pred, obj)]])])])])])])])

\* reify_variables: the registers of the operation's frame.
reify_variables(rule, regs, filter, type, column) ==
    Let([elem \in {type[column + 1]} |->
    Let([r1 \in {IF filter.lo_var # -1
              THEN entity_reg_set(rule, regs, filter.lo_var,
                       ecs_get_alive(rule.world, ECS_PAIR_OBJECT(elem)))
              ELSE regs} |->
       IF filter.hi_var # -1
       THEN entity_reg_set(rule, r1, filter.hi_var,
                ecs_get_alive(rule.world, ECS_PAIR_RELATION(elem)))
       ELSE r1])])

find_next_same_var(type, column, pattern) ==
    LET RECURSIVE scan(_)
        scan(i) ==
            IF i >= Len(type) THEN -1
            ELSE IF ~ECS_HAS_ROLE_PAIR(type[i + 1]) THEN -1
            ELSE IF ECS_PAIR_RELATION(type[i + 1])
                      = ECS_PAIR_OBJECT(type[i + 1]) THEN i
            ELSE scan(i + 1)
    IN scan(column + 1)

\* find_next_column; the table is not NULL.
find_next_column(world, table, column0, filter) ==
    Let([pattern \in {filter.mask} |->
    Let([type \in {table_type(world, table)} |->
    Let([tr \in {flecs_get_table_record(world, table, pattern)} |->
    Let([column \in {IF column0 = -1
                  THEN tr.column
                  ELSE IF type_count(world, table) <= column0 + 1 THEN -1
                  ELSE IF ~ecs_id_match(type[column0 + 2], pattern) THEN -1
                  ELSE column0 + 1} |->
       IF column = -1 THEN -1
       ELSE IF filter.same_var
       THEN find_next_same_var(type, column, filter.mask)
       ELSE column])])])])

\* find_next_table: returns the table record found (table NULL if none) and
\* the table_index it leaves in the operation context.
find_next_table(world, filter, idr, table_index) ==
    Let([tables \in {flecs_id_record_tables(world, idr)} |->
    Let([count \in {Len(tables)} |->
    LET RECURSIVE loop(_, _, _)
        loop(i, table, column) ==
            IF i < count /\ column = -1
            THEN Let([tr \in {tables[i + 1]} |->
                 Let([c \in {IF filter.same_var
                          THEN find_next_same_var(
                                   table_type(world, tr.table),
                                   tr.column - 1, filter.mask)
                          ELSE tr.column} |->
                    loop(i + 1, tr.table, c)])])
            ELSE [table |-> IF column = -1 THEN NULL ELSE table,
                  column |-> column, table_index |-> i]
    IN loop(table_index, NULL, -1)])])

rule_get_column(type, column) == type[column + 1]

\* A set_column that leaves the ids as they are.
set_column_none(it, op, type, column) == it

set_column(it, op, type, column) ==
    IF op.term = -1 THEN it
    ELSE [it EXCEPT !.ids[op.term + 1] = rule_get_column(type, column)]

set_source(rule, it, op, regs, r) ==
    IF op.term = -1 THEN it
    ELSE IF r # UINT8_MAX /\ rule.variables[r + 1].kind = EcsRuleVarKindEntity
    THEN [it EXCEPT !.subjects[op.term + 1] =
                        reg_get_entity(rule, op, regs, r)]
    ELSE [it EXCEPT !.subjects[op.term + 1] = 0]

\* ecs_rule_iter: a fresh iterator.  Only the first frame of the registers
\* and of the columns is initialized.
ecs_rule_iter(rule) ==
    Let([frame0 \in {[v \in 1..variable_count(rule) |->
                      IF rule.variables[v].kind = EcsRuleVarKindEntity
                      THEN [UninitReg EXCEPT !.entity = EcsWildcard]
                      ELSE [table |-> NULL, offset |-> 0, count |-> 0,
                            entity |-> 0]]} |->
       [op |-> 0,
        redo |-> FALSE,
        registers |-> [f \in 1..operation_count(rule) |->
                          IF f = 1 THEN frame0
                          ELSE [v \in 1..variable_count(rule) |-> UninitReg]],
        columns |-> [i \in 1..(operation_count(rule) * term_count(rule)) |->
                          IF i <= term_count(rule) THEN -1 ELSE Garbage],
        op_ctx |-> [o \in 1..operation_count(rule) |-> ZeroOpCtx],
        variables |-> [v \in 1..variable_count(rule) |-> Garbage],
        init_frames |-> {0},
        ids |-> [t \in 1..term_count(rule) |-> 0],
        subjects |-> [t \in 1..term_count(rule) |-> 0],
        subjects_null |-> TRUE,
        columns_frame |-> 0,
        table |-> NULL, offset |-> 0, count |-> 0,
        freed |-> FALSE,
        is_valid |-> FALSE]])

(***************************************************************************)
(* The operations.  Each eval operator returns [it, result, undefined]:    *)
(* the iterator after the operation, the bool the C function returns, and  *)
(* whether the operation ran into undefined behaviour (a NULL table        *)
(* dereferenced, the DFS stack overrun).                                   *)
(***************************************************************************)

Res(it, result) == [it |-> it, result |-> result, undefined |-> FALSE]

Undefined(it) == [it |-> it, result |-> FALSE, undefined |-> TRUE]

set_registers(it, op, regs) == [it EXCEPT !.registers[op.frame + 1] = regs]

eval_input(rule, it, op, op_index, redo) == Res(it, ~redo)

\* eval_superset that finds no entity: it fails at once.
eval_superset_none(rule, it, op, op_index, redo) == Res(it, FALSE)

\* The DFS stack is kept as the frames 0..sp; what the C array holds above
\* sp is never read before it is written again.
eval_superset(rule, it, op, op_index, redo) ==
    Let([world \in {rule.world} |->
    Let([op_ctx \in {it.op_ctx[op_index + 1]} |->
    Let([regs \in {get_registers(it, op)} |->
    Let([r \in {op.r_out} |->
    Let([filter \in {pair_to_filter(rule, it, op, op.filter)} |->
    Let([super_filter \in {
            [mask |-> ecs_pair(ECS_PAIR_RELATION(filter.mask), EcsWildcard),
             wildcard |-> FALSE, pred_wildcard |-> FALSE,
             obj_wildcard |-> FALSE, same_var |-> FALSE, hi_var |-> 0,
             lo_var |-> 0]} |->
    LET found(ctx, table, column) ==
            Let([type \in {table_type(world, table)} |->
            Let([col_obj \in {ecs_entity_t_lo(rule_get_column(type, column))} |->
            Let([it1 \in {set_registers(it, op,
                           entity_reg_set(rule, regs, r, col_obj))} |->
            Let([it2 \in {set_column(it1, op, type, column)} |->
               Res([it2 EXCEPT !.op_ctx[op_index + 1] = ctx], TRUE)])])])])
        RECURSIVE walk(_, _)
        walk(sp, stack) ==
            Let([frame \in {stack[sp + 1]} |->
            Let([column \in {find_next_column(world, frame.table, frame.column,
                                           super_filter)} |->
               IF column # -1
               THEN found([op_ctx EXCEPT
                             !.sp = sp,
                             !.stack = [SubSeq(stack, 1, sp + 1)
                                          EXCEPT ![sp + 1].column = column]],
                          frame.table, column)
               ELSE IF sp - 1 >= 0 THEN walk(sp - 1, stack)
               ELSE Res([it EXCEPT !.op_ctx[op_index + 1].stack = stack],
                        FALSE)])])
    IN IF ~redo
       THEN Let([obj \in {ECS_PAIR_OBJECT(filter.mask)} |->
            Let([table \in {table_from_entity(world, obj)} |->
            Let([column \in {find_next_column(world, table, -1, super_filter)} |->
            Let([ctx0 \in {[op_ctx EXCEPT !.sp = 0, !.stack = <<>>]} |->
               IF table = NULL THEN Undefined(it)
               ELSE IF column = -1
               THEN Res([it EXCEPT !.op_ctx[op_index + 1] = ctx0], FALSE)
               ELSE found([ctx0 EXCEPT !.stack =
                              <<[table |-> table, column |-> column]>>],
                          table, column)])])])])
       ELSE Let([sp \in {op_ctx.sp} |->
            Let([frame \in {op_ctx.stack[sp + 1]} |->
            Let([col_obj \in {ecs_entity_t_lo(rule_get_column(
                               table_type(world, frame.table), frame.column))} |->
            Let([next_table \in {table_from_entity(world, col_obj)} |->
               IF next_table # NULL
               THEN IF sp + 1 >= StorageSize THEN Undefined(it)
                    ELSE walk(sp + 1, Append(SubSeq(op_ctx.stack, 1, sp + 1),
                                 [table |-> next_table, column |-> -1]))
               ELSE walk(sp, op_ctx.stack)])])])])])])])])])])

\* eval_subset that finds no entity: it fails at once.
eval_subset_none(rule, it, op, op_index, redo) == Res(it, FALSE)

\* eval_subset that does not descend: it yields the first table of the
\* table set of the pair and nothing when evaluated again.
eval_subset_shallow(rule, it, op, op_index, redo) ==
    Let([world \in {rule.world} |->
    Let([op_ctx \in {it.op_ctx[op_index + 1]} |->
    Let([regs \in {get_registers(it, op)} |->
    Let([filter0 \in {pair_to_filter(rule, it, op, op.filter)} |->
    Let([idr \in {find_tables(world, filter0.mask)} |->
    Let([tr \in {find_next_table(world, filter0, idr, 0)} |->
       IF redo \/ idr = NULL \/ tr.table = NULL THEN Res(it, FALSE)
       ELSE
    Let([it1 \in {set_registers(it, op,
                   table_reg_set(rule, regs, op.r_out, tr.table))} |->
    Let([it2 \in {set_column(it1, op, table_type(world, tr.table), tr.column)} |->
       Res([it2 EXCEPT !.op_ctx[op_index + 1] =
                    [op_ctx EXCEPT
                       !.sp = 0,
                       !.stack = <<[idr |-> idr,
                                    table_index |-> tr.table_index,
                                    table |-> tr.table, row |-> 0,
                                    column |-> tr.column]>>]], TRUE)])])])])])])])])

eval_subset(rule, it, op, op_index, redo) ==
    Let([world \in {rule.world} |->
    Let([op_ctx \in {it.op_ctx[op_index + 1]} |->
    Let([regs \in {get_registers(it, op)} |->
    Let([r \in {op.r_out} |->
    Let([pair \in {op.filter} |->
    Let([filter0 \in {pair_to_filter(rule, it, op, pair)} |->
    LET found(ctx, table, column) ==
            Let([it1 \in {set_registers(it, op,
                           table_reg_set(rule, regs, r, table))} |->
            Let([it2 \in {set_column(it1, op, table_type(world, table), column)} |->
               Res([it2 EXCEPT !.op_ctx[op_index + 1] = ctx], TRUE)])])
        RECURSIVE next_in_frame(_, _)
        RECURSIVE next_entity(_, _)
        \* The while loop: the frame's table is used up, take the frame's
        \* next table or pop the frame.
        next_in_frame(ctx, filter) ==
            Let([sp \in {ctx.sp} |->
            Let([frame \in {ctx.stack[sp + 1]} |->
            Let([tr \in {find_next_table(world, filter, frame.idr,
                                      frame.table_index)} |->
               IF frame.row < ecs_table_count(world, frame.table)
               THEN next_entity(ctx, filter)
               ELSE IF tr.table # NULL
               THEN found([ctx EXCEPT !.stack[sp + 1] =
                              [idr |-> frame.idr,
                               table_index |-> tr.table_index,
                               table |-> tr.table, row |-> 0,
                               column |-> tr.column]],
                          tr.table, tr.column)
               ELSE IF sp - 1 < 0
               THEN Res([it EXCEPT !.op_ctx[op_index + 1] =
                            [ctx EXCEPT !.sp = -1, !.stack = <<>>]], FALSE)
               ELSE next_in_frame(
                        [ctx EXCEPT !.sp = sp - 1,
                             !.stack = [SubSeq(ctx.stack, 1, sp)
                                          EXCEPT ![sp].row = @ + 1]],
                        filter)])])])
        \* The inner do-while: look for the tables that have the entity at
        \* the frame's row as object.
        next_entity(ctx, filter_prev) ==
            Let([sp \in {ctx.sp} |->
            Let([frame \in {ctx.stack[sp + 1]} |->
            Let([e \in {table_entities(world, frame.table)[frame.row + 1]} |->
            Let([pair1 \in {[pair EXCEPT
                            !.reg_mask = mask_and_predicate(@), !.obj = e]} |->
            Let([filter \in {pair_to_filter(rule, it, op, pair1)} |->
            Let([idr \in {find_tables(world, filter.mask)} |->
            Let([tr \in {find_next_table(world, filter, idr, 0)} |->
            Let([advanced \in {[ctx EXCEPT !.stack[sp + 1].row = @ + 1]} |->
               IF idr # NULL /\ sp + 1 >= StorageSize THEN Undefined(it)
               ELSE IF idr # NULL /\ tr.table # NULL
               THEN found([ctx EXCEPT
                             !.sp = sp + 1,
                             !.stack = Append(ctx.stack,
                                [idr |-> idr, table_index |-> tr.table_index,
                                 table |-> tr.table, row |-> 0,
                                 column |-> tr.column])],
                          tr.table, tr.column)
               ELSE IF frame.row + 1 < ecs_table_count(world, frame.table)
               THEN next_entity(advanced, filter)
               ELSE next_in_frame(advanced, filter)])])])])])])])])
    IN IF ~redo
       THEN Let([idr \in {find_tables(world, filter0.mask)} |->
            Let([tr \in {find_next_table(world, filter0, idr, 0)} |->
            Let([ctx0 \in {[op_ctx EXCEPT !.sp = 0, !.stack = <<>>]} |->
               IF idr = NULL \/ tr.table = NULL
               THEN Res([it EXCEPT !.op_ctx[op_index + 1] = ctx0], FALSE)
               ELSE found([ctx0 EXCEPT !.stack =
                              <<[idr |-> idr, table_index |-> tr.table_index,
                                 table |-> tr.table, row |-> 0,
                                 column |-> tr.column]>>],
                          tr.table, tr.column)])])])
       ELSE next_in_frame(op_ctx, filter0)])])])])])])

\* An eval_select that finds no table.
eval_select_none(rule, it, op, op_index, redo) == Res(it, FALSE)

\* Position in it.columns (as a sequence) of columns[term] of the frame of
\* an operation.  With term -1 this is the slot before the frame.
column_slot(rule, op) == rule_get_columns(rule, op) + op.term + 1

eval_select(rule, it, op, op_index, redo) ==
    Let([world \in {rule.world} |->
    Let([op_ctx \in {it.op_ctx[op_index + 1]} |->
    Let([r \in {op.r_out} |->
    Let([pair \in {op.filter} |->
    Let([filter \in {pair_to_filter(rule, it, op, pair)} |->
    Let([pattern \in {filter.mask} |->
    Let([slot \in {column_slot(rule, op)} |->
    Let([it0 \in {IF ~redo /\ op.term # -1
               THEN [it EXCEPT !.ids[op.term + 1] = pattern,
                               !.columns[slot] = -1]
               ELSE it} |->
    Let([idr \in {IF redo THEN op_ctx.idr ELSE find_tables(world, pattern)} |->
    Let([it1 \in {[it0 EXCEPT !.op_ctx[op_index + 1].idr = idr]} |->
        \* A match: table and column are set.
    LET found(itf, table, column) ==
            Let([type \in {table_type(world, table)} |->
            Let([regs \in {get_registers(itf, op)} |->
            Let([it2 \in {IF filter.wildcard
                       THEN set_registers(itf, op,
                               reify_variables(rule, regs, filter, type,
                                               column))
                       ELSE itf} |->
               Res(IF ~pair.obj_0 THEN set_column(it2, op, type, column)
                   ELSE it2, TRUE)])])])
        \* Move to the next table of the table set.
        next_table(itn, table_index) ==
            Let([tr \in {find_next_table(world, filter, idr, table_index)} |->
            Let([it2 \in {[itn EXCEPT
                          !.op_ctx[op_index + 1].table_index = tr.table_index]} |->
            Let([it3 \in {set_registers(it2, op,
                          table_reg_set(rule, get_registers(it2, op), r,
                                        tr.table))} |->
               IF tr.table = NULL THEN Res(it2, FALSE)
               ELSE found([it3 EXCEPT !.columns[slot] = tr.column],
                          tr.table, tr.column)])])])
    IN IF idr = NULL THEN Res(it1, FALSE)
       ELSE IF ~redo THEN next_table(it1, 0)
       ELSE IF filter.wildcard
       THEN Let([table \in {table_reg_get(rule, get_registers(it1, op), r)} |->
            Let([column \in {find_next_column(world, table, it1.columns[slot],
                                           filter)} |->
            Let([it2 \in {[it1 EXCEPT !.columns[slot] = column]} |->
               IF column = -1 THEN next_table(it2, op_ctx.table_index)
               ELSE found(it2, table, column)])])])
       ELSE next_table(it1, op_ctx.table_index)])])])])])])])])])])

\* An eval_with that finds every fact stored.
eval_with_any(rule, it, op, op_index, redo) == Res(it, ~redo)

eval_with(rule, it, op, op_index, redo) ==
    Let([world \in {rule.world} |->
    Let([op_ctx \in {it.op_ctx[op_index + 1]} |->
    Let([regs \in {get_registers(it, op)} |->
    Let([r \in {op.r_in} |->
    Let([pair \in {op.filter} |->
    Let([filter \in {pair_to_filter(rule, it, op, pair)} |->
    Let([slot \in {column_slot(rule, op)} |->
    Let([it0 \in {IF ~redo /\ op.term # -1
               THEN [it EXCEPT !.columns[slot] = -1] ELSE it} |->
    Let([subj \in {IF r = UINT8_MAX THEN op.subject
                ELSE IF rule.variables[r + 1].kind = EcsRuleVarKindEntity
                THEN entity_reg_get(rule, regs, r)
                ELSE 0} |->
        \* The transitive, inclusive special case: subject and object are
        \* the same entity.
    Let([reflexive \in {/\ ~redo
                     /\ pair.transitive /\ pair.inclusive
                     /\ subj # 0
                     /\ ~filter.obj_wildcard
                     /\ subj = ecs_entity_t_lo(filter.mask)} |->
       IF redo /\ ~filter.wildcard THEN Res(it, FALSE)
       ELSE IF reflexive
       THEN IF op.term = -1 THEN Undefined(it0)
            ELSE Res([it0 EXCEPT !.ids[op.term + 1] = filter.mask], TRUE)
       ELSE
    Let([idr \in {IF redo THEN op_ctx.idr ELSE find_tables(world, filter.mask)} |->
    Let([it1 \in {[it0 EXCEPT !.op_ctx[op_index + 1].idr = idr]} |->
       IF idr = NULL THEN Res(it1, FALSE)
       ELSE
    Let([table \in {reg_get_table(rule, op, regs, r)} |->
       IF table = NULL THEN Res(it1, FALSE)
       ELSE
    Let([column \in {IF ~redo
                  THEN find_next_column(world, table, -1, filter)
                  ELSE find_next_column(world, table, it1.columns[slot],
                                        filter)} |->
       IF column = -1 THEN Res(it1, FALSE)
       ELSE
    Let([type \in {table_type(world, table)} |->
    Let([it2 \in {[it1 EXCEPT !.columns[slot] = column]} |->
    Let([it3 \in {IF filter.wildcard
               THEN set_registers(it2, op,
                       reify_variables(rule, regs, filter, type, column))
               ELSE it2} |->
    Let([it4 \in {IF ~pair.obj_0 THEN set_column(it3, op, type, column) ELSE it3} |->
       Res(set_source(rule, it4, op, get_registers(it4, op), r), TRUE)])])])])])])])])])])])])])])])])])])

eval_each(rule, it, op, op_index, redo) ==
    Let([op_ctx \in {it.op_ctx[op_index + 1]} |->
    Let([regs \in {get_registers(it, op)} |->
    Let([r_in \in {op.r_in} |->
    Let([r_out \in {op.r_out} |->
    Let([table \in {table_reg_get(rule, regs, r_in)} |->
    Let([offset \in {regs[r_in + 1].offset} |->
    Let([count \in {IF table = NULL THEN 0
                 ELSE IF regs[r_in + 1].count = 0
                 THEN ecs_table_count(rule.world, table)
                 ELSE regs[r_in + 1].count + offset} |->
    Let([entities \in {IF table = NULL THEN <<>>
                    ELSE table_entities(rule.world, table)} |->
    Let([row \in {IF ~redo THEN offset ELSE op_ctx.row + 1} |->
    Let([it1 \in {[it EXCEPT !.op_ctx[op_index + 1].row = row]} |->
        \* Skip builtin entities; the row of the context stays behind.
    LET RECURSIVE skip(_)
        skip(i) ==
            IF entities[i + 1] = EcsWildcard \/ entities[i + 1] = EcsThis
            THEN IF i + 1 = count THEN -1 ELSE skip(i + 1)
            ELSE i
        assign(itf, e) ==
            Res(set_registers(itf, op,
                    entity_reg_set(rule, regs, r_out, e)), TRUE)
    IN IF table # NULL
       THEN IF row >= count THEN Res(it1, FALSE)
            ELSE IF skip(row) = -1 THEN Res(it1, FALSE)
            ELSE assign(it1, entities[skip(row) + 1])
       ELSE IF ~redo THEN assign(it, entity_reg_get(rule, regs, r_in))
       ELSE Res(it, FALSE)])])])])])])])])])])

\* eval_store that stores nothing: it fails at once.
eval_store_fail(rule, it, op, op_index, redo) == Res(it, FALSE)

eval_store(rule, it, op, op_index, redo) ==
    Let([regs \in {get_registers(it, op)} |->
    Let([e \in {reg_get_entity(rule, op, regs, op.r_in)} |->
    Let([it1 \in {set_registers(it, op, reg_set_entity(rule, regs, op.r_out, e))} |->
       IF redo THEN Res(it, FALSE)
       ELSE IF op.term >= 0
       THEN Res([it1 EXCEPT !.ids[op.term + 1] =
                    pair_to_filter(rule, it, op, op.filter).mask], TRUE)
       ELSE Res(it1, TRUE)])])])

\* eval_setjmp that leaves the label at on_pass when it is evaluated again.
eval_setjmp_once(rule, it, op, op_index, redo) ==
    Res([it EXCEPT !.op_ctx[op_index + 1].label = op.on_pass], ~redo)

eval_setjmp(rule, it, op, op_index, redo) ==
    IF ~redo
    THEN Res([it EXCEPT !.op_ctx[op_index + 1].label = op.on_pass], TRUE)
    ELSE Res([it EXCEPT !.op_ctx[op_index + 1].label = op.on_fail], FALSE)

eval_jump(rule, it, op, op_index, redo) == Res(it, ~redo)

\* eval_not that fails also when it is first evaluated.
eval_not_fail(rule, it, op, op_index, redo) == Res(it, FALSE)

eval_not(rule, it, op, op_index, redo) == Res(it, ~redo)

eval_yield(rule, it, op, op_index, redo) == Res(it, FALSE)

eval_op(rule, it, op, op_index, redo) ==
    CASE op.kind = "EcsRuleInput" -> eval_input(rule, it, op, op_index, redo)
      [] op.kind = "EcsRuleSelect" ->
            eval_select(rule, it, op, op_index, redo)
      [] op.kind = "EcsRuleWith" -> eval_with(rule, it, op, op_index, redo)
      [] op.kind = "EcsRuleSubSet" ->
            eval_subset(rule, it, op, op_index, redo)
      [] op.kind = "EcsRuleSuperSet" ->
            eval_superset(rule, it, op, op_index, redo)
      [] op.kind = "EcsRuleEach" -> eval_each(rule, it, op, op_index, redo)
      [] op.kind = "EcsRuleStore" -> eval_store(rule, it, op, op_index, redo)
      [] op.kind = "EcsRuleSetJmp" ->
            eval_setjmp(rule, it, op, op_index, redo)
      [] op.kind = "EcsRuleJump" -> eval_jump(rule, it, op, op_index, redo)
      [] op.kind = "EcsRuleNot" -> eval_not(rule, it, op, op_index, redo)
      [] op.kind = "EcsRuleYield" -> eval_yield(rule, it, op, op_index, redo)
      [] OTHER -> Res(it, FALSE)

\* push_registers that copies into a frame only the first time the frame is
\* entered, and leaves the registers of an earlier branch in it after that.
push_registers_first(rule, it, cur, next) ==
    IF variable_count(rule) = 0 THEN it
    ELSE IF \E v \in 1..variable_count(rule) :
                get_register_frame(it, next)[v] # UninitReg
    THEN it
    ELSE [it EXCEPT !.registers[next + 1] = get_register_frame(it, cur)]

push_registers(rule, it, cur, next) ==
    IF variable_count(rule) = 0 THEN it
    ELSE [it EXCEPT !.registers[next + 1] = get_register_frame(it, cur)]

\* push_columns that leaves the columns of the next frame as they are.
push_columns_none(rule, it, cur, next) == it

push_columns(rule, it, cur, next) ==
    IF term_count(rule) = 0 THEN it
    ELSE Let([src_cols \in {rule_get_columns_frame(rule, cur)} |->
         Let([dst_cols \in {rule_get_columns_frame(rule, next)} |->
            [it EXCEPT !.columns =
                [i \in DOMAIN it.columns |->
                    IF i > dst_cols /\ i <= dst_cols + term_count(rule)
                    THEN it.columns[src_cols + (i - dst_cols)]
                    ELSE it.columns[i]]]])])

\* flecs_iter_populate_data: publishes the table, the offset and the count
\* of the batch; a count of 0 with a table is the whole table.
flecs_iter_populate_data(world, it, table, offset, count) ==
    [it EXCEPT !.table = table,
               !.offset = offset,
               !.count = IF table # NULL /\ count = 0
                         THEN ecs_table_count(world, table) ELSE count]

\* The entities of the batch the iterator publishes.
iter_entities(world, it) ==
    IF it.table = NULL THEN <<>>
    ELSE SubSeq(table_entities(world, it.table), it.offset + 1,
                it.offset + it.count)

\* The public columns array.
iter_columns(rule, it) ==
    [t \in 1..term_count(rule) |->
        it.columns[rule_get_columns_frame(rule, it.columns_frame) + t]]

populate_iterator(rule, it, op) ==
    Let([world \in {rule.world} |->
    Let([r \in {op.r_in} |->
    Let([regs \in {get_register_frame(it, op.frame)} |->
    Let([is_table \in {r # UINT8_MAX
                    /\ rule.variables[r + 1].kind = EcsRuleVarKindTable} |->
    Let([is_entity \in {r # UINT8_MAX /\ ~is_table} |->
    Let([record \in {IF is_entity THEN ecs_eis_get(world, regs[r + 1].entity)
                  ELSE [table |-> NULL, row |-> 0]} |->
    Let([table \in {IF is_table THEN table_reg_get(rule, regs, r)
                 ELSE IF is_entity THEN record.table ELSE NULL} |->
    Let([count \in {IF is_table THEN regs[r + 1].count
                 ELSE IF is_entity THEN 1 ELSE 0} |->
    Let([offset \in {IF is_table THEN regs[r + 1].offset
                  ELSE IF is_entity THEN record.row ELSE 0} |->
    Let([variables \in {[i \in 1..variable_count(rule) |->
                         IF rule.variables[i].kind = EcsRuleVarKindEntity
                         THEN regs[i].entity ELSE 0]} |->
    Let([subjects \in {[i \in 1..term_count(rule) |->
                        Let([v \in {rule.subject_variables[i]} |->
                           IF v # -1 /\ rule.variables[v + 1].kind
                                           = EcsRuleVarKindEntity
                           THEN regs[rule.variables[v + 1].id + 1].entity
                           ELSE it.subjects[i]])]} |->
    Let([base \in {rule_get_columns_frame(rule, op.frame)} |->
    LET column(i) ==
            Let([c \in {it.columns[base + i] + 1} |->
               IF subjects[i] = 0
               THEN IF rule.terms[i].subj.entity # EcsThis THEN 0 ELSE c
               ELSE IF c # 0 THEN -1 ELSE c]) IN
    Let([it1 \in {[it EXCEPT
                  !.variables = variables,
                  !.subjects = subjects,
                  !.columns_frame = op.frame,
                  !.columns = [i \in DOMAIN it.columns |->
                                  IF i > base /\ i <= base + term_count(rule)
                                  THEN column(i - base) ELSE it.columns[i]]]} |->
       IF is_entity /\ record.table = NULL THEN Undefined(it)
       ELSE Res(flecs_iter_populate_data(world, it1, table, offset, count),
                TRUE)])])])])])])])])])])])])])

is_control_flow(op) ==
    op.kind = "EcsRuleSetJmp" \/ op.kind = "EcsRuleJump"

\* ecs_rule_iter_free that also rewinds the program to its first operation.
ecs_rule_iter_rewind(it) ==
    [it EXCEPT !.registers = <<>>, !.columns = <<>>, !.op_ctx = <<>>,
               !.columns_frame = -1, !.freed = TRUE, !.op = 0]

ecs_rule_iter_free(it) ==
    [it EXCEPT !.registers = <<>>, !.columns = <<>>, !.op_ctx = <<>>,
               !.columns_frame = -1, !.freed = TRUE]

(***************************************************************************)
(* The state machine.  Rules are compiled once; iterators are created on   *)
(* them and advanced with ecs_rule_next.  A call of ecs_rule_next is the     *)
(* entry step NextBegin followed by one NextStep for each pass of its      *)
(* do-while loop.                                                          *)
(*   rule[i]      : the compiled rule (with its world and terms) that      *)
(*                  iterator i runs, or the outcome of an ecs_rule_init    *)
(*                  that returned no rule                                  *)
(*   iter[i]      : the iterator i, <<>> until it is created               *)
(*   pc[i]        : "none" (not created), "idle" (between calls),          *)
(*                  "running" (inside ecs_rule_next), "undefined" (the     *)
(*                  call ran into undefined behaviour)                     *)
(*   redo[i], last_frame[i] : the locals of the running call               *)
(*   ret[i]       : what the last call returned: "none", "true", "false"   *)
(*                  or "rejected" (the depleted check failed)              *)
(*   yields[i]    : history, what each call that returned true published   *)
(*   falses[i]    : history, number of calls that returned false           *)
(*   rejected[i]  : history, number of rejected calls                      *)
(*   var_set[i]   : history, the variable and the value that                *)
(*                  ecs_rule_set_var was called with, var -1 if it was not,*)
(*                  and for each call made after a call of ecs_rule_next   *)
(*                  the number of yields there were                        *)
(***************************************************************************)

VARIABLES rule, iter, pc, redo, last_frame, ret, yields, falses, rejected,
          var_set

vars == <<rule, iter, pc, redo, last_frame, ret, yields, falses, rejected,
          var_set>>

\* Number of iterators created on the rule.
NumIters == 2

\* ecs_rule_set_var was not called.
NoVarSet == [var |-> -1, value |-> 0, late |-> <<>>]

Iters == 1..NumIters

\* Largest number of calls made on a depleted iterator.
MaxRejected == 1

\* The state after the rule is compiled from one of the cases, a case being
\* a world and the terms of a rule.
InitCases(cases) ==
    /\ \E c \in cases : \E r \in ecs_rule_init(c.world, c.terms) :
          rule = [i \in Iters |-> r]
    /\ iter = [i \in Iters |-> <<>>]
    /\ pc = [i \in Iters |-> "none"]
    /\ redo = [i \in Iters |-> FALSE]
    /\ last_frame = [i \in Iters |-> -1]
    /\ ret = [i \in Iters |-> "none"]
    /\ yields = [i \in Iters |-> <<>>]
    /\ falses = [i \in Iters |-> 0]
    /\ rejected = [i \in Iters |-> 0]
    /\ var_set = [i \in Iters |-> NoVarSet]

\* The initial state for the returns of ecs_rule_init, NULL included.
InitReturns(cases) ==
    /\ \E c \in cases : \E r \in rule_init_returns(c.world, c.terms) :
          rule = [i \in Iters |-> r]
    /\ iter = [i \in Iters |-> <<>>]
    /\ pc = [i \in Iters |-> "none"]
    /\ redo = [i \in Iters |-> FALSE]
    /\ last_frame = [i \in Iters |-> -1]
    /\ ret = [i \in Iters |-> "none"]
    /\ yields = [i \in Iters |-> <<>>]
    /\ falses = [i \in Iters |-> 0]
    /\ rejected = [i \in Iters |-> 0]
    /\ var_set = [i \in Iters |-> NoVarSet]

\* RuleIter that does not clear the redo flag of an iterator created after
\* the first.
RuleIterStale(i) ==
    /\ pc[i] = "none"
    /\ rule_is_rule(rule[i])
    /\ \A j \in Iters : j < i => pc[j] = "idle" /\ iter[j].op = -1
    /\ iter' = [iter EXCEPT ![i] =
                   [ecs_rule_iter(rule[i]) EXCEPT !.redo = i > 1]]
    /\ pc' = [pc EXCEPT ![i] = "idle"]
    /\ UNCHANGED <<rule, redo, last_frame, ret, yields, falses, rejected,
                   var_set>>

\* ecs_rule_iter: iterator i is created, on a rule that ecs_rule_init
\* returned, once the iterators before it are depleted.
RuleIter(i) ==
    /\ pc[i] = "none"
    /\ rule_is_rule(rule[i])
    /\ \A j \in Iters : j < i => pc[j] = "idle" /\ iter[j].op = -1
    /\ iter' = [iter EXCEPT ![i] = ecs_rule_iter(rule[i])]
    /\ pc' = [pc EXCEPT ![i] = "idle"]
    /\ UNCHANGED <<rule, redo, last_frame, ret, yields, falses, rejected,
                   var_set>>

\* ecs_rule_find_var: the id of the Entity variable of that name, -1 if
\* there is none.
ecs_rule_find_var(r, name) ==
    Let([v \in {find_variable(r, EcsRuleVarKindEntity, name)} |->
       IF v = NULLVAR THEN -1 ELSE r.variables[v + 1].id])

\* An ecs_rule_set_var that does not check it->is_valid: it writes the
\* register as long as the registers are allocated.
ecs_rule_set_var_started(r, it, var_id, value) ==
    IF var_id = -1 \/ value = 0 \/ it.freed \/ ~(var_id < variable_count(r))
    THEN it
    ELSE [it EXCEPT !.registers[1] = entity_reg_set(r, @, var_id, value)]

\* ecs_rule_set_var: the checks fail for var_id -1, value 0, an iterator
\* that is valid and a var_id that is not below the variable count, and the
\* call then changes nothing; otherwise the value is written to the register
\* of the variable in the first frame.
ecs_rule_set_var(r, it, var_id, value) ==
    IF var_id = -1 \/ value = 0 \/ it.is_valid
       \/ ~(var_id < variable_count(r))
    THEN it
    ELSE [it EXCEPT !.registers[1] = entity_reg_set(r, @, var_id, value)]

\* flecs_iter_init, as far as ecs_rule_set_var depends on it: the iterator
\* is valid from the first call of ecs_rule_next on.
flecs_iter_init(it) == [it EXCEPT !.is_valid = TRUE]

\* The initialization of subjects and ids on the first call.
init_subjects(r, it) ==
    [it EXCEPT
       !.subjects_null = FALSE,
       !.subjects = [t \in 1..term_count(r) |->
                        IF r.terms[t].subj.var = "EcsVarIsEntity"
                           /\ r.terms[t].subj.entity # EcsThis
                        THEN r.terms[t].subj.entity ELSE 0],
       !.ids = [t \in 1..term_count(r) |->
                   IF "EcsNothing" \in r.terms[t].subj.set_mask
                      \/ r.terms[t].oper = "EcsNot"
                      \/ r.terms[t].oper = "EcsOptional"
                   THEN r.terms[t].id ELSE 0]]

\* Entry of ecs_rule_next up to the do-while loop.
NextBegin(i) ==
    /\ pc[i] = "idle"
    /\ IF iter[i].op = -1
       THEN /\ rejected[i] < MaxRejected
            /\ rejected' = [rejected EXCEPT ![i] = @ + 1]
            /\ ret' = [ret EXCEPT ![i] = "rejected"]
            /\ UNCHANGED <<iter, pc, redo, last_frame>>
       ELSE /\ iter' = [iter EXCEPT ![i] =
                          flecs_iter_init(IF @.subjects_null
                                          THEN init_subjects(rule[i], @)
                                          ELSE @)]
            /\ pc' = [pc EXCEPT ![i] = "running"]
            /\ redo' = [redo EXCEPT ![i] = iter[i].redo]
            /\ last_frame' = [last_frame EXCEPT ![i] = -1]
            /\ UNCHANGED <<ret, rejected>>
    /\ UNCHANGED <<rule, yields, falses, var_set>>

\* What a call that returned true published.
yield_of(r, it) ==
    [entities |-> iter_entities(r.world, it),
     count |-> it.count,
     ids |-> it.ids,
     subjects |-> it.subjects,
     columns |-> iter_columns(r, it),
     variables |-> it.variables]

\* One pass of the do-while loop of ecs_rule_next.
NextStep(i) ==
    /\ pc[i] = "running"
    /\ \E it \in {iter[i]} :
       \E op_index \in {it.op} :
       \E op \in {rule[i].operations[op_index + 1]} :
       \E cur \in {op.frame} :
       \E push \in {~redo[i] /\ ~is_control_flow(op) /\ cur # 0
                    /\ cur # last_frame[i]} :
       \E it1 \in {IF push
                   THEN Let([p \in {push_columns(rule[i],
                                       push_registers(rule[i], it, cur - 1, cur),
                                       cur - 1, cur)} |->
                            [p EXCEPT !.init_frames =
                               IF (cur - 1) \in @ THEN @ \cup {cur}
                               ELSE @ \ {cur}]])
                   ELSE it} :
       IF ~is_control_flow(op) /\ cur \notin it1.init_frames
       THEN /\ pc' = [pc EXCEPT ![i] = "undefined"]
            /\ UNCHANGED <<iter, redo, last_frame, ret, yields, falses>>
       ELSE
       \E res \in {eval_op(rule[i], it1, op, op_index, redo[i])} :
       \E it2 \in {[res.it EXCEPT
                      !.op = IF res.result THEN op.on_pass ELSE op.on_fail]} :
       IF res.undefined
       THEN /\ pc' = [pc EXCEPT ![i] = "undefined"]
            /\ UNCHANGED <<iter, redo, last_frame, ret, yields, falses>>
       ELSE IF op.kind = "EcsRuleYield"
       THEN \E pop \in {populate_iterator(rule[i], it2, op)} :
            IF pop.undefined
            THEN /\ pc' = [pc EXCEPT ![i] = "undefined"]
                 /\ UNCHANGED <<iter, redo, last_frame, ret, yields, falses>>
            ELSE /\ iter' = [iter EXCEPT ![i] = [pop.it EXCEPT !.redo = TRUE]]
                 /\ pc' = [pc EXCEPT ![i] = "idle"]
                 /\ ret' = [ret EXCEPT ![i] = "true"]
                 /\ yields' = [yields EXCEPT ![i] =
                                  Append(@, yield_of(rule[i], pop.it))]
                 /\ UNCHANGED <<redo, last_frame, falses>>
       ELSE
       \E it3 \in {IF op.kind = "EcsRuleJump"
                   THEN [it2 EXCEPT !.op = it2.op_ctx[op.on_pass + 1].label]
                   ELSE it2} :
       IF it3.op = -1
       THEN /\ iter' = [iter EXCEPT ![i] = ecs_rule_iter_free(it3)]
            /\ pc' = [pc EXCEPT ![i] = "idle"]
            /\ ret' = [ret EXCEPT ![i] = "false"]
            /\ falses' = [falses EXCEPT ![i] = @ + 1]
            /\ UNCHANGED <<redo, last_frame, yields>>
       ELSE /\ iter' = [iter EXCEPT ![i] = it3]
            /\ redo' = [redo EXCEPT ![i] = it3.op <= op_index]
            /\ last_frame' = [last_frame EXCEPT ![i] =
                                 IF ~is_control_flow(op) THEN op.frame
                                 ELSE @]
            /\ UNCHANGED <<pc, ret, yields, falses>>
    /\ UNCHANGED <<rule, rejected, var_set>>

Next == \E i \in Iters : RuleIter(i) \/ NextBegin(i) \/ NextStep(i)

(***************************************************************************)
(* Worlds and rules.  Every world holds the builtin IsA relation, which is *)
(* transitive, inclusive and final.                                        *)
(***************************************************************************)

IsARelation ==
    [entity |-> EcsIsA,
     ids |-> {EcsTransitive, EcsTransitiveSelf, EcsFinal}]

\* The entities (with a table) of a world that the application created.
user_entities(world) == {e \in world_entities(world) : e >= FirstUserId}

\* Iterator i has returned false.
depleted(i) == pc[i] = "idle" /\ iter[i].op = -1

\* The entities iterator i has yielded so far.
yielded(i) ==
    UNION {Range(yields[i][k].entities) : k \in DOMAIN yields[i]}

\* No call ran into undefined behaviour.
NoUndefined == \A i \in Iters : pc[i] # "undefined"

(***************************************************************************)
(* The tag family: three tags and a few entities, each with any set of the *)
(* tags.  The tags are all final ("final") or not final with TagC a        *)
(* sub-tag of TagB ("sub": TagC has (IsA, TagB)); the likes family also    *)
(* has them all not final and unrelated ("plain").                         *)
(***************************************************************************)

TagA == FirstUserId
TagB == FirstUserId + 1
TagC == FirstUserId + 2

Tags == {TagA, TagB, TagC}

TagModes == {"final", "sub"}

\* Number of entities that carry tags.
NumTagged == 2

Tagged == (FirstUserId + 3)..(FirstUserId + 2 + NumTagged)

TagEntities(mode) ==
    [k \in 1..3 |->
        [entity |-> FirstUserId + k - 1,
         ids |-> IF mode = "final" THEN {EcsFinal}
                 ELSE IF mode = "sub" /\ k = 3 THEN {ecs_pair(EcsIsA, TagB)}
                 ELSE {}]]

TagWorld(mode, has) ==
    world_from(<<IsARelation>> \o TagEntities(mode)
               \o [k \in 1..NumTagged |->
                      [entity |-> FirstUserId + 2 + k,
                       ids |-> has[FirstUserId + 2 + k]]])

TagWorlds ==
    {TagWorld(mode, has) :
        mode \in TagModes, has \in [Tagged -> SUBSET Tags]}

\* The tag and the tags that are (IsA) the tag, directly or indirectly.
sub_tags(world, tag) ==
    LET RECURSIVE close(_)
        close(S) ==
            LET more == {t \in world_entities(world) :
                            \E b \in S :
                                ecs_has_id(world, t, ecs_pair(EcsIsA, b))}
            IN IF more \subseteq S THEN S ELSE close(S \cup more)
    IN close({tag})

\* The entity has the tag or a tag that is (IsA) the tag.
has_tag(world, e, tag) ==
    \E t \in sub_tags(world, tag) : ecs_has_id(world, e, t)

\* Tag(This) with an operator.
TagTerm(tag, oper) == Term(TermIdEntity(tag), TermIdThis, TermIdNone, oper)

\* TagA, !TagB
NotRule == <<TagTerm(TagA, "EcsAnd"), TagTerm(TagB, "EcsNot")>>

InitNot == InitCases({[world |-> w, terms |-> NotRule] : w \in TagWorlds})

SpecNot == InitNot /\ [][Next]_vars

\* C6: for the rule TagA, !TagB every entity yielded has TagA and does not
\* have TagB, and once the iteration is over every entity that has TagA and
\* does not have TagB has been yielded.  An entity has a tag when its type
\* holds the tag or a tag that is (IsA) the tag.
C6_Negation ==
    \A i \in Iters :
        pc[i] # "none" =>
            LET world == rule[i].world
                expected == {e \in world_entities(world) :
                                /\ has_tag(world, e, TagA)
                                /\ ~has_tag(world, e, TagB)}
            IN /\ yielded(i) \subseteq expected
               /\ depleted(i) => expected \subseteq yielded(i)

\* An iteration of TagA, !TagB is over in a world where one entity has TagA
\* and TagB and another has TagA only.
C6_Witness ==
    /\ depleted(1)
    /\ yielded(1) # {}
    /\ \E e \in Tagged : /\ has_tag(rule[1].world, e, TagA)
                         /\ has_tag(rule[1].world, e, TagB)

(***************************************************************************)
(* The likes family: an entity that likes (has the pair (Likes, o) for)    *)
(* any set of the tagged entities of a tag world.                          *)
(***************************************************************************)

Likes == FirstUserId + 8

Liker == FirstUserId + 7

LikesWorld(mode, has, liked) ==
    world_from(<<IsARelation>> \o TagEntities(mode)
               \o <<[entity |-> Likes,
                     ids |-> IF mode = "final" THEN {EcsFinal} ELSE {}]>>
               \o [k \in 1..NumTagged |->
                      [entity |-> FirstUserId + 2 + k,
                       ids |-> has[FirstUserId + 2 + k]]]
               \o <<[entity |-> Liker,
                     ids |-> {ecs_pair(Likes, o) : o \in liked}]>>)

LikesWorlds ==
    {LikesWorld(mode, has, liked) :
        mode \in {"final", "plain"}, has \in [Tagged -> SUBSET Tags],
        liked \in SUBSET Tagged}

\* Tag(X) with an operator.
TagOfX(tag, oper) == Term(TermIdEntity(tag), TermIdVar("X"), TermIdNone, oper)

\* TagA, ?TagB, ?TagC and the rule without its Optional terms.
OptRule ==
    <<TagTerm(TagA, "EcsAnd"), TagTerm(TagB, "EcsOptional"),
      TagTerm(TagC, "EcsOptional")>>

OptRuleBase == <<TagTerm(TagA, "EcsAnd")>>

\* (Likes, X), TagA(X), ?TagB(X), ?TagC(X) and the rule without its
\* Optional terms.
LikesOptRule ==
    <<Term(TermIdEntity(Likes), TermIdThis, TermIdVar("X"), "EcsAnd"),
      TagOfX(TagA, "EcsAnd"), TagOfX(TagB, "EcsOptional"),
      TagOfX(TagC, "EcsOptional")>>

LikesOptRuleBase ==
    <<Term(TermIdEntity(Likes), TermIdThis, TermIdVar("X"), "EcsAnd"),
      TagOfX(TagA, "EcsAnd")>>

\* The state after two rules are compiled on the same world: iterator 1
\* runs the rule of c.terms, the other iterators the rule of c.base.
InitPairs(cases) ==
    /\ \E c \in cases :
          \E r \in ecs_rule_init(c.world, c.terms) :
             \E b \in ecs_rule_init(c.world, c.base) :
                rule = [i \in Iters |-> IF i = 1 THEN r ELSE b]
    /\ iter = [i \in Iters |-> <<>>]
    /\ pc = [i \in Iters |-> "none"]
    /\ redo = [i \in Iters |-> FALSE]
    /\ last_frame = [i \in Iters |-> -1]
    /\ ret = [i \in Iters |-> "none"]
    /\ yields = [i \in Iters |-> <<>>]
    /\ falses = [i \in Iters |-> 0]
    /\ rejected = [i \in Iters |-> 0]
    /\ var_set = [i \in Iters |-> NoVarSet]

InitOpt ==
    InitPairs({[world |-> w, terms |-> OptRule, base |-> OptRuleBase] :
                  w \in TagWorlds}
              \cup {[world |-> w, terms |-> LikesOptRule,
                     base |-> LikesOptRuleBase] : w \in LikesWorlds})

SpecOpt == InitOpt /\ [][Next]_vars

\* ecs_term_is_set: the public column of the term is not 0.
ecs_term_is_set(y, t) == y.columns[t] # 0

\* The entities a yield matched term t against: the term's subject, or the
\* entities of the batch when the subject is This.
term_subjects(y, t) ==
    IF y.subjects[t] # 0 THEN {y.subjects[t]} ELSE Range(y.entities)

\* C7: in every yield, an Optional term is set (its public column is not 0)
\* if and only if the subject the term was matched against has the term's
\* tag.
C7_OptionalSet ==
    \A i \in Iters : \A k \in DOMAIN yields[i] :
        \A t \in DOMAIN rule[i].terms :
            rule[i].terms[t].oper = "EcsOptional" =>
                \A s \in term_subjects(yields[i][k], t) :
                    ecs_term_is_set(yields[i][k], t)
                        <=> has_tag(rule[i].world, s,
                                    rule[i].terms[t].pred.entity)

\* A yield reported one Optional term as set and the other as not set.
C7_Witness ==
    \E k \in DOMAIN yields[1] :
        /\ rule[1].terms[2].oper = "EcsOptional"
        /\ ecs_term_is_set(yields[1][k], 2)
        /\ ~ecs_term_is_set(yields[1][k], 3)

\* The value a yield of rule r gives the Entity variable of a name, 0 if
\* the rule has no such variable.
var_value(r, y, name) ==
    LET v == find_variable(r, EcsRuleVarKindEntity, name)
    IN IF v = NULLVAR THEN 0 ELSE y.variables[r.variables[v + 1].id + 1]

\* The names of the variables of the terms of a rule that are not Optional.
base_var_names(r) ==
    UNION {{term_id_var_name(r.terms[t].pred),
            term_id_var_name(r.terms[t].subj),
            term_id_var_name(r.terms[t].obj)} \ {""} :
           t \in {u \in DOMAIN r.terms : r.terms[u].oper # "EcsOptional"}}

\* C8: once the iteration of a rule with Optional terms and the iteration of
\* the rule without them are over, they have the same number of yields and,
\* position by position, the same This entities and the same values of the
\* variables of the terms that are not Optional.
C8_OptionalNeutral ==
    (depleted(1) /\ depleted(2)) =>
        /\ Len(yields[1]) = Len(yields[2])
        /\ \A k \in DOMAIN yields[1] :
              /\ yields[1][k].entities = yields[2][k].entities
              /\ \A n \in base_var_names(rule[2]) :
                    var_value(rule[1], yields[1][k], n)
                        = var_value(rule[2], yields[2][k], n)

\* Both iterations are over, and a yield of the rule with Optional terms
\* had an Optional term set.
C8_Witness ==
    /\ depleted(1) /\ depleted(2)
    /\ Len(yields[2]) >= 2
    /\ \E k \in DOMAIN yields[1] : ecs_term_is_set(yields[1][k], 3)

(***************************************************************************)
(* The pair family: two entities that are used as relation, as subject and *)
(* as object; each has any set of the pairs over the two.                  *)
(***************************************************************************)

\* Number of entities of the pair family.
NumPairEntities == 2

PairEntities == FirstUserId..(FirstUserId + NumPairEntities - 1)

PairIds == {ecs_pair(r, o) : r \in PairEntities, o \in PairEntities}

PairWorld(has) ==
    world_from(<<IsARelation>>
               \o [k \in 1..NumPairEntities |->
                      [entity |-> FirstUserId + k - 1,
                       ids |-> has[FirstUserId + k - 1]]])

PairWorlds == {PairWorld(has) : has \in [PairEntities -> SUBSET PairIds]}

\* The entity a term id denotes under an assignment of entities to the
\* variable names ("." is This).
denotes(term_id, assignment) ==
    IF term_id_is_variable(term_id)
    THEN assignment[term_id_var_name(term_id)]
    ELSE term_id.entity

\* The fact a term states under an assignment is stored in the world: the
\* type of the subject holds the predicate, or the pair of the predicate
\* and the object.
fact_stored(world, term, assignment) ==
    ecs_has_id(world, denotes(term.subj, assignment),
               IF obj_is_set(term)
               THEN ecs_pair(denotes(term.pred, assignment),
                             denotes(term.obj, assignment))
               ELSE denotes(term.pred, assignment))

\* The names of the variables of a rule.
var_names(r) ==
    UNION {{term_id_var_name(r.terms[t].pred),
            term_id_var_name(r.terms[t].subj),
            term_id_var_name(r.terms[t].obj)} \ {""} : t \in DOMAIN r.terms}

\* The assignments a yield of rule r carries: This is a member of the
\* batch, every other variable has the value the yield gives it.
yield_assignments(r, y) ==
    {a \in [var_names(r) -> Range(y.entities) \cup Range(y.variables)] :
        \A n \in var_names(r) :
            IF n = "." THEN a[n] \in Range(y.entities)
            ELSE a[n] = var_value(r, y, n)}

\* The assignments under which every And term of rule r states a stored
\* fact.
answers(r) ==
    {a \in [var_names(r) -> world_entities(r.world)] :
        \A t \in DOMAIN r.terms :
            r.terms[t].oper = "EcsAnd" => fact_stored(r.world, r.terms[t], a)}

\* C1: every result yielded is a true answer: under the assignment a yield
\* carries, every And term states a fact stored in the world.
C1_Soundness ==
    \A i \in Iters : \A k \in DOMAIN yields[i] :
        \A a \in yield_assignments(rule[i], yields[i][k]) :
            \A t \in DOMAIN rule[i].terms :
                rule[i].terms[t].oper = "EcsAnd" =>
                    fact_stored(rule[i].world, rule[i].terms[t], a)

\* C2: once the iteration is over, every assignment under which all terms
\* state stored facts is carried by a yield.
C2_Completeness ==
    \A i \in Iters :
        depleted(i) =>
            \A a \in answers(rule[i]) :
                \E k \in DOMAIN yields[i] :
                    a \in yield_assignments(rule[i], yields[i][k])

(***************************************************************************)
(* The transitive family: nodes joined by stored pairs of a transitive     *)
(* inclusive relation, which is IsA or an entity with the same traits.     *)
(***************************************************************************)

\* Number of nodes of the graphs of the transitive family.
NumNodes == 3

Rel == FirstUserId

Nodes == (FirstUserId + 1)..(FirstUserId + NumNodes)

TransRels == {EcsIsA, Rel}

\* The edges a graph may have: acyclic graphs only have pairs from a node
\* to a node with a smaller id.
DownEdges == {e \in Nodes \X Nodes : e[1] > e[2]}

TransWorld(R, edges) ==
    world_from(<<IsARelation>>
               \o (IF R = EcsIsA THEN <<>>
                   ELSE <<[entity |-> R,
                           ids |-> {EcsTransitive, EcsTransitiveSelf,
                                    EcsFinal}]>>)
               \o [k \in 1..NumNodes |->
                      [entity |-> FirstUserId + k,
                       ids |-> {ecs_pair(R, b) : b \in
                                   {n \in Nodes :
                                       <<FirstUserId + k, n>> \in edges}}]])

SubsetRule(R, O) ==
    <<Term(TermIdEntity(R), TermIdThis, TermIdEntity(O), "EcsAnd")>>

SupersetRule(R, S) ==
    <<Term(TermIdEntity(R), TermIdEntity(S), TermIdThis, "EcsAnd")>>

AcyclicCases ==
    {[world |-> TransWorld(R, edges), terms |-> terms] :
        <<R, edges, terms>> \in
            {<<R, edges, terms>> \in
                TransRels \X (SUBSET DownEdges)
                \X UNION {{SubsetRule(R, n), SupersetRule(R, n)} :
                             R \in TransRels, n \in Nodes} :
                terms[1].pred.entity = R}}

InitAcyclic == InitCases(AcyclicCases)

SpecAcyclic == InitAcyclic /\ [][Next]_vars

\* The number of paths of stored R pairs that lead from a to b; the empty
\* path leads from a node to itself.
RECURSIVE NumPaths(_, _, _, _)
NumPaths(world, R, a, b) ==
    IF a = b THEN 1
    ELSE LET targets == SortSet({n \in world_entities(world) :
                                    ecs_has_id(world, a, ecs_pair(R, n))})
             RECURSIVE sum(_)
             sum(k) == IF k > Len(targets) THEN 0
                       ELSE NumPaths(world, R, targets[k], b) + sum(k + 1)
         IN  sum(1)

\* How many times entity e is yielded in a sequence of yields.
RECURSIVE occurrences(_, _)
occurrences(ys, e) ==
    IF ys = <<>> THEN 0
    ELSE Cardinality({p \in DOMAIN Head(ys).entities :
                         Head(ys).entities[p] = e})
         + occurrences(Tail(ys), e)

is_subset_rule(r) ==
    /\ Len(r.terms) = 1
    /\ r.terms[1].subj.entity = EcsThis
    /\ r.terms[1].obj.entity # EcsThis

is_superset_rule(r) ==
    /\ Len(r.terms) = 1
    /\ r.terms[1].subj.entity # EcsThis
    /\ r.terms[1].obj.entity = EcsThis

\* C9 as stated: once `R(., O)` is iterated, O and every entity from which
\* O is reachable were yielded exactly once each, and no other entity was
\* yielded.
C9_SubsetOnce ==
    \A i \in Iters :
        (depleted(i) /\ is_subset_rule(rule[i])) =>
            \A e \in world_entities(rule[i].world) :
                occurrences(yields[i], e) =
                    IF NumPaths(rule[i].world, rule[i].terms[1].pred.entity,
                                e, rule[i].terms[1].obj.entity) > 0
                    THEN 1 ELSE 0

\* C9 amended: once `R(., O)` is iterated, every entity was yielded once
\* for each path of stored R pairs that leads from it to O (O itself once,
\* an entity that does not reach O never).
C9_SubsetPaths ==
    \A i \in Iters :
        (depleted(i) /\ is_subset_rule(rule[i])) =>
            \A e \in world_entities(rule[i].world) :
                occurrences(yields[i], e) =
                    NumPaths(rule[i].world, rule[i].terms[1].pred.entity,
                             e, rule[i].terms[1].obj.entity)

\* `R(., O)` was iterated in a world where an entity reaches O along two
\* paths, and the entity was yielded twice.
C9_Witness ==
    /\ depleted(1)
    /\ is_subset_rule(rule[1])
    /\ \E e \in Nodes :
          /\ NumPaths(rule[1].world, rule[1].terms[1].pred.entity, e,
                      rule[1].terms[1].obj.entity) = 2
          /\ occurrences(yields[1], e) = 2

SupersetPaths ==
    \A i \in Iters :
        is_superset_rule(rule[i]) =>
            /\ yields[i] # <<>> =>
                  yields[i][1].entities = <<rule[i].terms[1].subj.entity>>
            /\ depleted(i) =>
                  \A e \in world_entities(rule[i].world) :
                      occurrences(yields[i], e) =
                          NumPaths(rule[i].world,
                                   rule[i].terms[1].pred.entity,
                                   rule[i].terms[1].subj.entity, e)

(***************************************************************************)
(* The cyclic family: graphs over three nodes with any set of stored pairs *)
(* between different nodes, so that pairs may form a cycle.                *)
(***************************************************************************)

CycNodes == {n \in Nodes : n <= FirstUserId + 3}

CycEdges == {e \in CycNodes \X CycNodes : e[1] # e[2]}

CyclicCases ==
    {[world |-> TransWorld(R, edges), terms |-> terms] :
        <<R, edges, terms>> \in
            {<<R, edges, terms>> \in
                TransRels \X (SUBSET CycEdges)
                \X UNION {{SubsetRule(R, n), SupersetRule(R, n)} :
                             R \in TransRels, n \in CycNodes} :
                terms[1].pred.entity = R}}

InitCyclic == InitCases(CyclicCases)

\* A call that is running its loop takes its next pass: NextStep(i) is
\* enabled exactly when pc[i] is "running", so this is weak fairness of
\* NextStep(i), stated on the variables of iterator i.
LoopRuns(i) ==
    \/ []<>(pc[i] # "running")
    \/ []<><<pc[i] = "running">>_<<iter[i], pc[i], redo[i], last_frame[i]>>

\* The application keeps creating iterators and calling ecs_rule_next, and
\* a call keeps running its loop.
SpecCyclic ==
    /\ InitCyclic
    /\ [][Next]_vars
    /\ WF_vars(\E i \in Iters : RuleIter(i) \/ NextBegin(i))
    /\ \A i \in Iters : LoopRuns(i)

\* C3: every iteration reaches the call that returns false.
C3_Termination == <>(\A i \in Iters : depleted(i))

(***************************************************************************)
(* Rules over the pair family.                                             *)
(***************************************************************************)

\* This(This, This)
ThisThisThis == <<Term(TermIdThis, TermIdThis, TermIdThis, "EcsAnd")>>

\* X(This, e) for the first entity e of the family
PredVarRule ==
    <<Term(TermIdVar("X"), TermIdThis, TermIdEntity(FirstUserId), "EcsAnd")>>

\* e(This, X)
ObjVarRule ==
    <<Term(TermIdEntity(FirstUserId), TermIdThis, TermIdVar("X"), "EcsAnd")>>

\* e(This, X), f(X, This) for the first two entities e, f of the family
JoinRule ==
    <<Term(TermIdEntity(FirstUserId), TermIdThis, TermIdVar("X"), "EcsAnd"),
      Term(TermIdEntity(FirstUserId + 1), TermIdVar("X"), TermIdThis,
           "EcsAnd")>>

PairRules == {ThisThisThis, PredVarRule, ObjVarRule, JoinRule}

PairCases ==
    {[world |-> w, terms |-> t] : w \in PairWorlds, t \in PairRules}

InitPairFamily == InitCases(PairCases)

SpecPairFamily == InitPairFamily /\ [][Next]_vars

(***************************************************************************)
(* The default specification: a rule of the tag family or of the           *)
(* transitive family over an acyclic graph, iterated by each iterator in   *)
(* turn.                                                                   *)
(***************************************************************************)

Init ==
    InitCases({[world |-> w, terms |-> NotRule] : w \in TagWorlds}
              \cup AcyclicCases)

Spec == Init /\ [][Next]_vars

\* C4: ecs_rule_next returns false once, on the call that exhausts the
\* program: an iterator has returned false exactly when it is depleted,
\* only a depleted iterator rejects a call, and no step changes a depleted
\* iterator, adds a yield to it or makes it return true or false again.
C4_FalseOnce ==
    /\ [](\A i \in Iters :
            /\ falses[i] <= 1
            /\ falses[i] = 1 <=> depleted(i)
            /\ rejected[i] > 0 => depleted(i)
            /\ ret[i] \in {"false", "rejected"} => depleted(i))
    /\ [][\A i \in Iters :
            depleted(i) =>
                /\ iter'[i] = iter[i]
                /\ pc'[i] = pc[i]
                /\ yields'[i] = yields[i]
                /\ falses'[i] = falses[i]
                /\ ret'[i] \in {ret[i], "rejected"}]_vars

\* A call on a depleted iterator that had yielded results was rejected.
C4_Witness ==
    /\ depleted(1)
    /\ yields[1] # <<>>
    /\ falses[1] = 1
    /\ ret[1] = "rejected"
    /\ rejected[1] = MaxRejected

\* What a yield publishes holds no value read from uninitialized memory.
yield_is_initialized(y) ==
    Garbage \notin (Range(y.entities) \cup Range(y.ids) \cup Range(y.subjects)
                    \cup Range(y.columns) \cup Range(y.variables)
                    \cup {y.count})

\* C5: two iterations of the same rule over the same world yield the same
\* sequence: while the later one runs its yields are a prefix of the
\* earlier one's, once both are over the sequences are equal, and no yield
\* holds a value of uninitialized memory.
C5_Determinism ==
    \A i \in Iters : \A j \in Iters :
        /\ \A k \in DOMAIN yields[i] : yield_is_initialized(yields[i][k])
        /\ pc[i] # "undefined"
        /\ (i < j /\ rule[i] = rule[j] /\ depleted(i)) =>
              /\ Len(yields[j]) <= Len(yields[i])
              /\ yields[j] = SubSeq(yields[i], 1, Len(yields[j]))
              /\ depleted(j) => yields[j] = yields[i]

\* Two iterations with at least two yields each are over.
C5_Witness ==
    /\ depleted(1)
    /\ depleted(2)
    /\ Len(yields[1]) >= 2
    /\ Len(yields[2]) >= 2

RelTraits ==
    {{EcsTransitive, EcsFinal},
     {EcsTransitive, EcsTransitiveSelf, EcsFinal}}

FactWorld(traits, edges) ==
    world_from(<<IsARelation, [entity |-> Rel, ids |-> traits]>>
               \o [k \in 1..NumNodes |->
                      [entity |-> FirstUserId + k,
                       ids |-> {ecs_pair(Rel, b) : b \in
                                   {n \in Nodes :
                                       <<FirstUserId + k, n>> \in edges}}]])

FactRule(R, S, O) ==
    <<Term(TermIdEntity(R), TermIdEntity(S), TermIdEntity(O), "EcsAnd")>>

FactCases ==
    {[world |-> FactWorld(traits, edges), terms |-> terms] :
        traits \in RelTraits, edges \in SUBSET DownEdges,
        terms \in {FactRule(Rel, S, O) : S \in Nodes, O \in Nodes}
                  \cup {SubsetRule(Rel, n) : n \in Nodes}
                  \cup {SupersetRule(Rel, n) : n \in Nodes}}

InitFact == InitCases(FactCases)

SpecFact == InitFact /\ [][Next]_vars

is_fact_rule(r) ==
    /\ Len(r.terms) = 1
    /\ r.terms[1].subj.entity # EcsThis
    /\ r.terms[1].obj.entity # EcsThis

\* The relation of the one term of rule r is inclusive in r's world.
is_inclusive(r) ==
    ecs_has_id(r.world, r.terms[1].pred.entity, EcsTransitiveSelf)

\* b is reachable from a through a chain of one or more stored R pairs.
Reachable(world, R, a, b) ==
    \E n \in world_entities(world) :
        /\ ecs_has_id(world, a, ecs_pair(R, n))
        /\ NumPaths(world, R, n, b) > 0

occurs_in_pair(world, R, X) ==
    \E n \in world_entities(world) :
        \/ ecs_has_id(world, X, ecs_pair(R, n))
        \/ ecs_has_id(world, n, ecs_pair(R, X))

\* C12: with R inclusive and X the subject or object of a stored R pair,
\* `R(X, X)` iterated to its end has yielded although X does not store
\* (R, X), and X is among the entities `R(X, .)` and `R(., X)` have yielded
\* once they are iterated to their end.
C12_InclusiveReflexive ==
    \A i \in Iters :
        LET R == rule[i].terms[1].pred.entity
            S == rule[i].terms[1].subj.entity
            O == rule[i].terms[1].obj.entity
        IN (depleted(i) /\ is_inclusive(rule[i])) =>
              /\ (is_fact_rule(rule[i]) /\ S = O
                  /\ occurs_in_pair(rule[i].world, R, S)) =>
                    /\ yields[i] # <<>>
                    /\ ~ecs_has_id(rule[i].world, S, ecs_pair(R, S))
              /\ (is_superset_rule(rule[i])
                  /\ occurs_in_pair(rule[i].world, R, S)) => S \in yielded(i)
              /\ (is_subset_rule(rule[i])
                  /\ occurs_in_pair(rule[i].world, R, O)) => O \in yielded(i)

\* `R(X, X)` with R inclusive was iterated to its end and yielded, X being
\* the object of a stored pair and storing no pair itself.
C12_Witness ==
    /\ depleted(1)
    /\ is_inclusive(rule[1])
    /\ is_fact_rule(rule[1])
    /\ rule[1].terms[1].subj.entity = rule[1].terms[1].obj.entity
    /\ occurs_in_pair(rule[1].world, Rel, rule[1].terms[1].subj.entity)
    /\ \A n \in Nodes :
          ~ecs_has_id(rule[1].world, rule[1].terms[1].subj.entity,
                      ecs_pair(Rel, n))
    /\ Len(yields[1]) = 1

(***************************************************************************)
(* The inheritance family: a tag, final or not, and entities that have the *)
(* tag or not and are linked by any acyclic set of stored IsA pairs; the   *)
(* rule is `Tag(S)` for the entity S with the largest id.                  *)
(***************************************************************************)

NumIsaNodes == 4

IsaTag == FirstUserId

IsaNodes == (FirstUserId + 1)..(FirstUserId + NumIsaNodes)

IsaTop == FirstUserId + NumIsaNodes

IsaEdges == {e \in IsaNodes \X IsaNodes : e[1] > e[2]}

IsaWorld(final, tagged, edges) ==
    world_from(<<IsARelation,
                 [entity |-> IsaTag,
                  ids |-> IF final THEN {EcsFinal} ELSE {}]>>
               \o [k \in 1..NumIsaNodes |->
                      [entity |-> FirstUserId + k,
                       ids |-> (IF (FirstUserId + k) \in tagged
                                THEN {IsaTag} ELSE {})
                               \cup {ecs_pair(EcsIsA, b) : b \in
                                       {n \in IsaNodes :
                                           <<FirstUserId + k, n>> \in edges}}]])

\* Tag(S)
TagFact(tag, S) ==
    <<Term(TermIdEntity(tag), TermIdEntity(S), TermIdNone, "EcsAnd")>>

IsaCases ==
    {[world |-> IsaWorld(final, tagged, edges),
      terms |-> TagFact(IsaTag, IsaTop)] :
        final \in BOOLEAN, tagged \in SUBSET IsaNodes,
        edges \in SUBSET IsaEdges}

InitIsa == InitCases(IsaCases)

SpecIsa == InitIsa /\ [][Next]_vars

\* The length of the shortest chain of stored IsA pairs from a to b, and
\* NumIsaNodes + 1 if there is none.
RECURSIVE IsaDistance(_, _, _)
IsaDistance(world, a, b) ==
    IF a = b THEN 0
    ELSE Min({NumIsaNodes + 1}
             \cup {1 + IsaDistance(world, n, b) :
                      n \in {m \in world_entities(world) :
                                ecs_has_id(world, a, ecs_pair(EcsIsA, m))}})

\* S and the entities reachable from S through stored IsA pairs that have
\* the id.
isa_holders(world, S, id) ==
    {e \in world_entities(world) :
        /\ IsaDistance(world, S, e) <= NumIsaNodes
        /\ ecs_has_id(world, e, id)}

SameVarRule ==
    <<Term(TermIdVar("X"), TermIdThis, TermIdVar("X"), "EcsAnd")>>

SameVarCases == {[world |-> w, terms |-> SameVarRule] : w \in PairWorlds}

InitSameVar == InitCases(SameVarCases)

SpecSameVar == InitSameVar /\ [][Next]_vars

\* C14: `X(., X)` yields an entity with value x only if the type of the
\* entity holds the pair (x, x), the id it reports for the term is that
\* pair, and once the iteration is over every entity was yielded with
\* every x of which its type holds the pair (x, x).
C14_SameVarPair ==
    \A i \in Iters :
        /\ pc[i] # "undefined"
        /\ \A k \in DOMAIN yields[i] :
              /\ yield_assignments(rule[i], yields[i][k])
                    \subseteq answers(rule[i])
              /\ yields[i][k].ids[1] =
                    ecs_pair(var_value(rule[i], yields[i][k], "X"),
                             var_value(rule[i], yields[i][k], "X"))
        /\ depleted(i) =>
              \A a \in answers(rule[i]) :
                  \E k \in DOMAIN yields[i] :
                      a \in yield_assignments(rule[i], yields[i][k])


\* The part of the same-variable claim that the code keeps: no call ends
\* in undefined behaviour, every yield of `X(., X)` is an answer, and
\* the id it reports is the pair (x, x) of the value x it reports.
C14_SameVarSound ==
    \A i \in Iters :
        /\ pc[i] # "undefined"
        /\ \A k \in DOMAIN yields[i] :
              /\ yield_assignments(rule[i], yields[i][k])
                    \subseteq answers(rule[i])
              /\ yields[i][k].ids[1] =
                    ecs_pair(var_value(rule[i], yields[i][k], "X"),
                             var_value(rule[i], yields[i][k], "X"))

\* `X(., X)` was iterated to its end with at least one yield in a world
\* where some entity has two pairs whose relation is their object.
C14_Witness ==
    /\ depleted(1)
    /\ Len(yields[1]) >= 1
    /\ \E e \in PairEntities : \E x, y \in PairEntities :
          /\ x # y
          /\ ecs_has_id(rule[1].world, e, ecs_pair(x, x))
          /\ ecs_has_id(rule[1].world, e, ecs_pair(y, y))


(***************************************************************************)
(* The ground family: the worlds of the pair family and rules of one or    *)
(* two And terms whose predicate, subject and object are all literal.      *)
(***************************************************************************)

GroundTerms ==
    {Term(TermIdEntity(R), TermIdEntity(S), TermIdEntity(O), "EcsAnd") :
        R \in PairEntities, S \in PairEntities, O \in PairEntities}

\* Every rule of one term, and the rules of two terms of the first relation.
GroundRules ==
    {<<t>> : t \in GroundTerms}
    \cup {<<t1, t2>> :
            t1 \in {t \in GroundTerms : t.pred.entity = FirstUserId},
            t2 \in {t \in GroundTerms : t.pred.entity = FirstUserId}}

GroundCases ==
    {[world |-> w, terms |-> terms] : w \in PairWorlds, terms \in GroundRules}

InitGround == InitCases(GroundCases)

SpecGround == InitGround /\ [][Next]_vars

\* Every term of rule r states a fact stored in the world; the terms have
\* no variables.
all_facts_stored(r) ==
    \A t \in DOMAIN r.terms :
        ecs_has_id(r.world, r.terms[t].subj.entity, r.terms[t].id)

C15_WitnessFalse ==
    /\ depleted(1)
    /\ Len(rule[1].terms) = 2
    /\ ~all_facts_stored(rule[1])
    /\ \E t \in DOMAIN rule[1].terms :
          ecs_has_id(rule[1].world, rule[1].terms[t].subj.entity,
                     rule[1].terms[t].id)
    /\ yields[1] = <<>>
    /\ falses[1] >= 1


(***************************************************************************)
(* The batch family: the worlds of the tag family and the rules of one or  *)
(* two And terms `Tag(This)` with a literal tag.                           *)
(***************************************************************************)

BatchRules ==
    {<<TagTerm(a, "EcsAnd")>> : a \in Tags}
    \cup {<<TagTerm(a, "EcsAnd"), TagTerm(b, "EcsAnd")>> :
            a \in Tags, b \in Tags}

BatchCases ==
    {[world |-> w, terms |-> terms] : w \in TagWorlds, terms \in BatchRules}

InitBatch == InitCases(BatchCases)

SpecBatch == InitBatch /\ [][Next]_vars

\* The tables a yield can expose: the non-empty tables of the world.
batch_tables(world) ==
    {t \in DOMAIN world.tables : ecs_table_count(world, t) > 0}

\* The type of the table holds the id of every And term of the rule.
type_has_ids(r, t) ==
    \A k \in DOMAIN r.terms :
        r.terms[k].oper = "EcsAnd"
            => r.terms[k].id \in Range(table_type(r.world, t))

\* The type of the table holds, for every And term of the rule, the tag of
\* the term or a tag that is (IsA) that tag.
type_has_tags(r, t) ==
    \A k \in DOMAIN r.terms :
        r.terms[k].oper = "EcsAnd"
            => \E s \in sub_tags(r.world, r.terms[k].id) :
                   s \in Range(table_type(r.world, t))

\* The yield exposes the whole of table t.
whole_table(r, y, t) ==
    /\ y.entities = table_entities(r.world, t)
    /\ y.count = ecs_table_count(r.world, t)

matching_ids(r, t, k) ==
    sub_tags(r.world, r.terms[k].id) \cap Range(table_type(r.world, t))

\* The ways table t matches the rule: one id of its type for every term.
table_matches(r, t) ==
    {m \in [DOMAIN r.terms -> Range(table_type(r.world, t))] :
        \A k \in DOMAIN r.terms : m[k] \in matching_ids(r, t, k)}

SubjVarRule ==
    <<Term(TermIdEntity(FirstUserId), TermIdVar("X"), TermIdVar("Y"),
           "EcsAnd")>>

SetVarRules == {ObjVarRule, JoinRule, SubjVarRule}

SetVarCases ==
    {[world |-> w, terms |-> t] : w \in PairWorlds, t \in SetVarRules}

InitSetVar == InitCases(SetVarCases)

\* ecs_rule_set_var(it, ecs_rule_find_var(rule, name), value) for a
\* variable name of the rule and an entity of the world, called once
\* between ecs_rule_iter and the first ecs_rule_next.
SetVar(i) ==
    /\ pc[i] = "idle"
    /\ iter[i].op = 0
    /\ iter[i].subjects_null
    /\ var_set[i] = NoVarSet
    /\ \E name \in var_names(rule[i]) :
       \E value \in user_entities(rule[i].world) :
       \E var_id \in {ecs_rule_find_var(rule[i], name)} :
          /\ var_id # -1
          /\ iter' = [iter EXCEPT ![i] =
                         ecs_rule_set_var(rule[i], @, var_id, value)]
          /\ var_set' = [var_set EXCEPT ![i] =
                            [@ EXCEPT !.var = var_id, !.value = value]]
    /\ UNCHANGED <<rule, pc, redo, last_frame, ret, yields, falses, rejected>>

NextSetVar ==
    \E i \in Iters :
        RuleIter(i) \/ (i > 1 /\ SetVar(i)) \/ NextBegin(i) \/ NextStep(i)

SpecSetVar == InitSetVar /\ [][NextSetVar]_vars

\* The position of yield y of rule r gives the variable the value: This is
\* a member of the batch, any other variable has the value.
yield_has_value(r, y, var_id, value) ==
    IF r.variables[var_id + 1].name = "."
    THEN value \in Range(y.entities)
    ELSE y.variables[var_id + 1] = value

\* The assignments of the yields of iterator i in which the variable has
\* the value.
assignments_with(i, var_id, value) ==
    {a \in UNION {yield_assignments(rule[i], yields[i][k]) :
                     k \in DOMAIN yields[i]} :
        a[rule[i].variables[var_id + 1].name] = value}

\* C17: with ecs_rule_set_var(it, v, e) called before the first
\* ecs_rule_next, no call runs into undefined behaviour, every yield has
\* v = e, and once this iteration and the unconstrained one are over, the
\* assignments yielded are those of the unconstrained iteration in which
\* v has the value e.
C17_SetVar ==
    \A i \in Iters :
        var_set[i] # NoVarSet =>
            /\ pc[i] # "undefined"
            /\ \A k \in DOMAIN yields[i] :
                  \A a \in yield_assignments(rule[i], yields[i][k]) :
                      a[rule[i].variables[var_set[i].var + 1].name]
                          = var_set[i].value
            /\ depleted(1) /\ depleted(i) =>
                  assignments_with(i, var_set[i].var, var_set[i].value)
                      = assignments_with(1, var_set[i].var, var_set[i].value)


\* The variable is the subject of a term of the rule.
is_subject_var(r, var_id) ==
    \E t \in DOMAIN r.terms :
        term_id_var_name(r.terms[t].subj) = r.variables[var_id + 1].name

\* The part of the set-variable claim that the code keeps: it holds for a
\* variable that is not the subject of a term.
C17_SetVarObject ==
    \A i \in Iters :
        var_set[i] # NoVarSet /\ ~is_subject_var(rule[i], var_set[i].var) =>
            /\ pc[i] # "undefined"
            /\ \A k \in DOMAIN yields[i] :
                  \A a \in yield_assignments(rule[i], yields[i][k]) :
                      a[rule[i].variables[var_set[i].var + 1].name]
                          = var_set[i].value
            /\ depleted(1) /\ depleted(i) =>
                  assignments_with(i, var_set[i].var, var_set[i].value)
                      = assignments_with(1, var_set[i].var, var_set[i].value)

\* ecs_rule_set_var was called for the subject variable of `e(X, Y)` and
\* the iteration is over with a yield.
C17_Witness ==
    /\ depleted(2)
    /\ rule[2].terms = SubjVarRule
    /\ var_set[2] # NoVarSet
    /\ is_subject_var(rule[2], var_set[2].var)
    /\ Len(yields[2]) >= 1


(***************************************************************************)
(* The reification family: the worlds of the pair family and the rules     *)
(* with a variable as predicate or object, matched on This and on a        *)
(* subject variable.                                                       *)
(***************************************************************************)

ReifyRules ==
    {ThisThisThis, PredVarRule, ObjVarRule, JoinRule, SubjVarRule,
     SameVarRule}

ReifyCases ==
    {[world |-> w, terms |-> t] : w \in PairWorlds, t \in ReifyRules}

InitReify == InitCases(ReifyCases)

SpecReify == InitReify /\ [][Next]_vars

\* The id has no wildcard and no empty component.
is_concrete(id) ==
    IF ECS_HAS_ROLE_PAIR(id)
    THEN /\ ECS_PAIR_RELATION(id) \notin {0, EcsWildcard}
         /\ ECS_PAIR_OBJECT(id) \notin {0, EcsWildcard}
    ELSE id \notin {0, EcsWildcard}

\* The predicate or the object of the term is a variable or the wildcard.
has_wildcard(term) ==
    \/ term.pred.var = "EcsVarIsVariable"
    \/ term.pred.entity = EcsWildcard
    \/ /\ obj_is_set(term)
       /\ term.obj.var = "EcsVarIsVariable" \/ term.obj.entity = EcsWildcard

\* The yield reports term t as matched.
term_matched(y, t) == y.columns[t] # 0

\* The table of the subject that a yield reports for term t: the table of
\* the batch for subject 0, the table of the subject otherwise.
subject_table(r, y, t) ==
    IF y.subjects[t] # 0 THEN table_from_entity(r.world, y.subjects[t])
    ELSE IF y.entities # <<>> THEN table_from_entity(r.world, y.entities[1])
    ELSE NULL

\* The subject of the term is a variable that is also its predicate or its
\* object.
subject_reified(term) ==
    /\ term.subj.var = "EcsVarIsVariable"
    /\ \/ term_id_var_name(term.subj) = term_id_var_name(term.pred)
       \/ term_id_var_name(term.subj) = term_id_var_name(term.obj)

C18_WitnessShared ==
    \E k \in DOMAIN yields[1] : \E t \in DOMAIN rule[1].terms :
        /\ has_wildcard(rule[1].terms[t])
        /\ ~subject_reified(rule[1].terms[t])
        /\ yields[1][k].columns[t] = -1


(***************************************************************************)
(* The compile family: one world and every rule of at most two terms over  *)
(* a literal and a variable predicate, the subjects This, a literal and a  *)
(* variable, no object, a literal and a variable object, and the operators *)
(* And and Not.  The state holds what ecs_rule_init returned, NULL         *)
(* included.                                                               *)
(***************************************************************************)

CompileWorld ==
    PairWorld([e \in PairEntities |->
                  IF e = FirstUserId
                  THEN {ecs_pair(FirstUserId, FirstUserId + 1)}
                  ELSE {FirstUserId, ecs_pair(FirstUserId, FirstUserId + 1)}])

CompileTerms ==
    {Term(pred, subj, obj, oper) :
        pred \in {TermIdEntity(FirstUserId), TermIdVar("X")},
        subj \in {TermIdThis, TermIdEntity(FirstUserId + 1), TermIdVar("Y")},
        obj \in {TermIdNone, TermIdEntity(FirstUserId + 1), TermIdVar("X")},
        oper \in {"EcsAnd", "EcsNot"}}

CompileRules ==
    {<<>>}
    \cup {<<t>> : t \in CompileTerms}
    \cup {<<t1, t2>> : t1 \in CompileTerms, t2 \in CompileTerms}

CompileCases == {[world |-> CompileWorld, terms |-> t] : t \in CompileRules}

InitCompile == InitReturns(CompileCases)

SpecCompile == InitCompile /\ [][Next]_vars

\* C19: ecs_rule_init returns NULL for an empty term list and for a term
\* list in which every term has the Not operator.
C19_NoRule ==
    \A i \in Iters :
        \/ Len(rule[i].terms) = 0
        \/ \A t \in DOMAIN rule[i].terms : rule[i].terms[t].oper = "EcsNot"
        => rule_is_null(rule[i])

\* ecs_rule_init returned NULL for a rule of two Not terms.
C19_Witness ==
    /\ rule_is_null(rule[1])
    /\ Len(rule[1].terms) = 2
    /\ \A t \in DOMAIN rule[1].terms : rule[1].terms[t].oper = "EcsNot"

\* ecs_rule_init returned NULL for the empty term list.
C19_WitnessEmpty ==
    /\ rule_is_null(rule[1])
    /\ rule[1].terms = <<>>


\* The names of the variables of a term.
term_var_names(term) ==
    {term_id_var_name(term.pred), term_id_var_name(term.subj),
     term_id_var_name(term.obj)} \ {""}

\* Some Not term of the terms uses a variable that no other term uses.
not_term_introduces_variable(terms) ==
    \E t \in DOMAIN terms :
        /\ terms[t].oper = "EcsNot"
        /\ \E n \in term_var_names(terms[t]) :
              \A u \in DOMAIN terms \ {t} : n \notin term_var_names(terms[u])

\* The statement of the rejection of Not terms as written: ecs_rule_init
\* returns NULL for every rule in which a Not term uses a variable that no
\* other term uses.
C20_NotVariableRejected ==
    \A i \in Iters :
        not_term_introduces_variable(rule[i].terms) => rule_is_null(rule[i])


\* The part of the claim that the code keeps: a rule with an And term on
\* This is rejected when a Not term uses a variable that no other term
\* uses.
C20_RejectedWithThis ==
    \A i \in Iters :
        /\ not_term_introduces_variable(rule[i].terms)
        /\ \E t \in DOMAIN rule[i].terms :
              /\ rule[i].terms[t].oper = "EcsAnd"
              /\ rule[i].terms[t].subj = TermIdThis
        => rule_is_null(rule[i])

\* ecs_rule_init was called with `e(f), !e(f, X)` for entities e and f,
\* and did not return NULL.
C20_Witness ==
    /\ rule[1].terms =
          <<Term(TermIdEntity(FirstUserId), TermIdEntity(FirstUserId + 1),
                 TermIdNone, "EcsAnd"),
            Term(TermIdEntity(FirstUserId), TermIdEntity(FirstUserId + 1),
                 TermIdVar("X"), "EcsNot")>>
    /\ ~rule_is_null(rule[1])

\* ecs_rule_init returned a rule for `e(f), !e(Y)`, and the rule was
\* iterated to its end.
C20_WitnessSubject ==
    /\ rule[1].terms =
          <<Term(TermIdEntity(FirstUserId), TermIdEntity(FirstUserId + 1),
                 TermIdNone, "EcsAnd"),
            Term(TermIdEntity(FirstUserId), TermIdVar("Y"),
                 TermIdNone, "EcsNot")>>
    /\ rule_is_rule(rule[1])
    /\ depleted(1)


(***************************************************************************)
(* Unconstrained variables (family SpecCompile).                           *)
(***************************************************************************)

\* The errors ecs_rule_init raises before the depth analysis ran.
early_errors ==
    {"rule has no terms", "rule cannot only have terms with Not operator",
     "too many variables in rule"}

\* Some subject variable of the rule has the infinite depth.
has_infinite_subject(r) ==
    \E v \in 1..r.subject_variable_count :
        r.variables[v].depth = UINT8_MAX

\* C21: ecs_rule_init rejects a rule with the error 'unconstrained
\* variable' exactly when the depth analysis ran and left some subject
\* variable at the infinite depth UINT8_MAX; every subject variable of a
\* compiled rule has a finite depth.
C21_Unconstrained ==
    \A i \in Iters :
        /\ rule_is_null(rule[i]) =>
              ((rule[i].error = "unconstrained variable")
                  <=> (/\ rule[i].error \notin early_errors
                       /\ has_infinite_subject(rule[i])))
        /\ rule_is_rule(rule[i]) => ~has_infinite_subject(rule[i])

\* A rule with two subject variables is rejected as unconstrained, and a
\* rule with two subject variables that are joined is iterated.
C21_Witness ==
    /\ rule_is_null(rule[1])
    /\ rule[1].error = "unconstrained variable"
    /\ rule[1].subject_variable_count = 2
    /\ has_infinite_subject(rule[1])

\* A compiled rule with two subject variables, both of finite depth, has
\* yielded.
C21_WitnessCompiled ==
    /\ rule_is_rule(rule[1])
    /\ rule[1].subject_variable_count = 2
    /\ Len(yields[1]) > 0


(***************************************************************************)
(* The variable cap (family SpecCompile).                                  *)
(***************************************************************************)

\* The names of the variables the terms refer to.
referenced_variables(terms) ==
    UNION {term_var_names(terms[t]) : t \in DOMAIN terms}

\* C22: a rule that refers to more than ECS_RULE_MAX_VARIABLE_COUNT distinct
\* variables is rejected with the error 'too many variables in rule' and
\* ecs_rule_init returns no rule; no rule that is returned has more than
\* ECS_RULE_MAX_VARIABLE_COUNT variables.
C22_TooManyVariables ==
    \A i \in Iters :
        /\ Cardinality(referenced_variables(rule[i].terms))
              > ECS_RULE_MAX_VARIABLE_COUNT
           => /\ rule_is_null(rule[i])
              /\ rule[i].error = "too many variables in rule"
        /\ rule_is_rule(rule[i])
           => variable_count(rule[i]) <= ECS_RULE_MAX_VARIABLE_COUNT

\* A rule that refers to more variables than the cap was returned, has more
\* variables than the cap and has yielded a result.
C22_Witness ==
    /\ Cardinality(referenced_variables(rule[1].terms))
          > ECS_RULE_MAX_VARIABLE_COUNT
    /\ rule_is_rule(rule[1])
    /\ variable_count(rule[1]) > ECS_RULE_MAX_VARIABLE_COUNT
    /\ Len(yields[1]) > 0


(***************************************************************************)
(* ecs_rule_set_var after the iteration has started (family SpecSetVar,    *)
(* with calls of ecs_rule_set_var between the calls of ecs_rule_next).     *)
(***************************************************************************)

\* Largest number of calls of ecs_rule_set_var made on an iterator after a
\* call of ecs_rule_next.
MaxLate == 1

\* ecs_rule_set_var(it, ecs_rule_find_var(rule, name), value) for a
\* variable name of the rule and an entity of the world, called after a
\* call of ecs_rule_next on the iterator has returned.
SetVarStarted(i) ==
    /\ pc[i] = "idle"
    /\ ret[i] # "none"
    /\ Len(var_set[i].late) < MaxLate
    /\ \E name \in var_names(rule[i]) :
       \E value \in user_entities(rule[i].world) :
       \E var_id \in {ecs_rule_find_var(rule[i], name)} :
          /\ var_id # -1
          /\ iter' = [iter EXCEPT ![i] =
                         ecs_rule_set_var(rule[i], @, var_id, value)]
          /\ var_set' = [var_set EXCEPT ![i].late = Append(@, Len(yields[i]))]
    /\ UNCHANGED <<rule, pc, redo, last_frame, ret, yields, falses, rejected>>

NextSetVarStarted ==
    \E i \in Iters :
        \/ RuleIter(i)
        \/ (i > 1 /\ SetVarStarted(i))
        \/ NextBegin(i)
        \/ NextStep(i)

SpecSetVarStarted == InitSetVar /\ [][NextSetVarStarted]_vars

RuleIterBorrowed(i) ==
    /\ pc[i] = "none"
    /\ rule_is_rule(rule[i])
    /\ iter' = [iter EXCEPT ![i] =
                   IF \E j \in Iters : pc[j] = "idle" /\ ~iter[j].freed
                   THEN iter[CHOOSE j \in Iters :
                                pc[j] = "idle" /\ ~iter[j].freed]
                   ELSE ecs_rule_iter(rule[i])]
    /\ pc' = [pc EXCEPT ![i] = "idle"]
    /\ UNCHANGED <<rule, redo, last_frame, ret, yields, falses, rejected,
                   var_set>>

\* ecs_rule_iter: iterator i is created on a rule that ecs_rule_init
\* returned, whatever the other iterators of the rule are doing.
RuleIterAny(i) ==
    /\ pc[i] = "none"
    /\ rule_is_rule(rule[i])
    /\ iter' = [iter EXCEPT ![i] = ecs_rule_iter(rule[i])]
    /\ pc' = [pc EXCEPT ![i] = "idle"]
    /\ UNCHANGED <<rule, redo, last_frame, ret, yields, falses, rejected,
                   var_set>>

NextInterleaved ==
    \E i \in Iters : RuleIterAny(i) \/ NextBegin(i) \/ NextStep(i)

SpecInterleaved == Init /\ [][NextInterleaved]_vars

\* What belongs to iterator i.
iterator_state(i) ==
    <<iter[i], pc[i], redo[i], last_frame[i], ret[i], yields[i], falses[i],
      rejected[i]>>

\* C24: no step writes to the compiled rule, a step of one iterator leaves
\* what belongs to the other iterators as it is, and however the calls of
\* two iterators of a rule interleave, no call runs into undefined
\* behaviour, the yields of the one that is behind are the first yields of
\* the other, and two iterators that are over have yielded the same
\* sequence.
C24_Isolation ==
    /\ [][/\ rule' = rule
          /\ \A i \in Iters : \A j \in Iters \ {i} :
                iterator_state(i)' # iterator_state(i)
                   => iterator_state(j)' = iterator_state(j)]_vars
    /\ [](\A i \in Iters : \A j \in Iters :
            /\ pc[i] # "undefined"
            /\ Len(yields[i]) <= Len(yields[j])
                  => yields[i] = SubSeq(yields[j], 1, Len(yields[i]))
            /\ depleted(i) /\ depleted(j) => yields[i] = yields[j])

\* Both iterators are inside a call of ecs_rule_next, the second one yield
\* ahead of the first, and each has yielded before.
C24_Witness ==
    /\ pc[1] = "running" /\ pc[2] = "running"
    /\ Len(yields[1]) >= 1
    /\ Len(yields[2]) = Len(yields[1]) + 1

\* ---------------------------------------------------------------------
\* C25: the public columns of a yield.

\* The table of the entities a yield reports for This.
this_table(r, y) == table_from_entity(r.world, y.entities[1])

\* Term t of rule r matched nothing in yield y: a Not term, a term whose
\* subject is Nothing, or an Optional term none of whose subjects has the
\* tag.
matched_nothing(r, y, t) ==
    \/ r.terms[t].oper = "EcsNot"
    \/ "EcsNothing" \in r.terms[t].subj.set_mask
    \/ /\ r.terms[t].oper = "EcsOptional"
       /\ \A s \in term_subjects(y, t) :
             ~has_tag(r.world, s, r.terms[t].pred.entity)

\* The subject of the term is This.
subject_is_this(term) ==
    term.subj.var = "EcsVarIsVariable" /\ term.subj.entity = EcsThis

\* C25: at every yield and for every term, the public column is 0 if the
\* term matched nothing, is the 0-based index of the matched id in the type
\* of the This table plus 1 if the term matched on the This table, and is
\* negative if the term matched on another subject.
C25_Columns ==
    \A i \in Iters : \A k \in DOMAIN yields[i] :
       \A t \in DOMAIN rule[i].terms :
          IF matched_nothing(rule[i], yields[i][k], t)
          THEN yields[i][k].columns[t] = 0
          ELSE IF subject_is_this(rule[i].terms[t])
          THEN /\ yields[i][k].entities # <<>>
               /\ yields[i][k].columns[t] \in
                     1..type_count(rule[i].world,
                                   this_table(rule[i], yields[i][k]))
               /\ table_type(rule[i].world,
                             this_table(rule[i], yields[i][k]))
                     [yields[i][k].columns[t]] = yields[i][k].ids[t]
          ELSE yields[i][k].columns[t] < 0

\* A yield of a rule with one And term on This: the yielded table stores the
\* term's id in its type, and the public column of the term is 0.
C25_Witness ==
    \E k \in DOMAIN yields[1] :
       /\ Len(rule[1].terms) = 1
       /\ rule[1].terms[1].oper = "EcsAnd"
       /\ subject_is_this(rule[1].terms[1])
       /\ yields[1][k].entities # <<>>
       /\ yields[1][k].ids[1] \in
             Range(table_type(rule[1].world,
                              this_table(rule[1], yields[1][k])))
       /\ yields[1][k].columns[1] = 0

(***************************************************************************)
(* The recycled family (Rules_comp_recycled_id, Rules_pair_recycled_obj):  *)
(* the relation Pred and the object Obj live in id slots that were used    *)
(* before, so their ids carry a generation; two plain entities each have   *)
(* any of the tag Pred and the pair (Pred, Obj).                           *)
(***************************************************************************)

\* ECS_ENTITY(world, Pred, 0) after a dummy of the same slot was deleted.
RecycledPred == FirstUserId + LoRange

RecycledObj == FirstUserId + 1 + LoRange

\* Number of plain entities of the recycled family.
NumRecycledSubjects == 2

RecycledSubjects ==
    (FirstUserId + 2)..(FirstUserId + 1 + NumRecycledSubjects)

\* The ids a subject of the family can have: ecs_add_id with the tag stores
\* the id with its generation, ecs_pair keeps the low words only.
RecycledIds == {RecycledPred, ecs_pair(RecycledPred, RecycledObj)}

RecycledWorld(final, has) ==
    world_from(<<IsARelation,
                 [entity |-> RecycledPred,
                  ids |-> IF final THEN {EcsFinal} ELSE {}],
                 [entity |-> RecycledObj, ids |-> {}]>>
               \o [k \in 1..NumRecycledSubjects |->
                      [entity |-> FirstUserId + 1 + k,
                       ids |-> has[FirstUserId + 1 + k]]])

RecycledWorlds ==
    {RecycledWorld(final, has) :
        final \in BOOLEAN, has \in [RecycledSubjects -> SUBSET RecycledIds]}

\* Pred(.)
RecycledTagRule ==
    <<Term(TermIdEntity(RecycledPred), TermIdThis, TermIdNone, "EcsAnd")>>

\* Pred(., Obj)
RecycledPairRule ==
    <<Term(TermIdEntity(RecycledPred), TermIdThis,
           TermIdEntity(RecycledObj), "EcsAnd")>>

\* Pred(., _X)
RecycledObjVarRule ==
    <<Term(TermIdEntity(RecycledPred), TermIdThis, TermIdVar("X"),
           "EcsAnd")>>

\* _X(., Obj)
RecycledPredVarRule ==
    <<Term(TermIdVar("X"), TermIdThis, TermIdEntity(RecycledObj),
           "EcsAnd")>>

RecycledRules ==
    {RecycledTagRule, RecycledPairRule, RecycledObjVarRule,
     RecycledPredVarRule}

RecycledCases ==
    {[world |-> w, terms |-> t] : w \in RecycledWorlds, t \in RecycledRules}

InitRecycled == InitCases(RecycledCases)

SpecRecycled == InitRecycled /\ [][Next]_vars

\* The id a rule of the recycled family asks for.
recycled_id(terms) ==
    IF obj_is_set(terms[1])
    THEN ecs_pair(RecycledPred, RecycledObj)
    ELSE RecycledPred

\* The value of the variable named name in a yield, 0 if the rule has none.
yield_var(r, y, name) ==
    Let([vs \in {{v \in DOMAIN r.variables :
                    /\ r.variables[v].name = name
                    /\ r.variables[v].kind = EcsRuleVarKindEntity}} |->
       IF vs = {} THEN 0 ELSE y.variables[Min(vs)]])

\* C26: a finished iteration of a rule with a recycled literal predicate or
\* object has yielded exactly the entities that store the id, every yield
\* reports the stored id for the term, and a variable bound from the
\* matched id is the live entity (with its generation) of the id's low
\* word.
C26_GenerationFree ==
    \A i \in Iters :
       /\ pc[i] # "undefined"
       /\ \A k \in DOMAIN yields[i] :
             /\ yields[i][k].ids[1] = recycled_id(rule[i].terms)
             /\ rule[i].terms[1].obj.var = "EcsVarIsVariable"
                   => yield_var(rule[i], yields[i][k], "X") = RecycledObj
             /\ rule[i].terms[1].pred.var = "EcsVarIsVariable"
                   => yield_var(rule[i], yields[i][k], "X") = RecycledPred
       /\ depleted(i) =>
             yielded(i) = {e \in user_entities(rule[i].world) :
                             ecs_has_id(rule[i].world, e,
                                        recycled_id(rule[i].terms))}


\* A finished iteration of Pred(.) with a recycled, non-final Pred (the
\* filter mask is the low word of the register that holds Pred): one of the
\* two entities stores the tag and has been yielded, the other has not.
C26_Witness ==
    /\ depleted(1)
    /\ rule[1].terms = RecycledTagRule
    /\ ~ecs_has_id(rule[1].world, RecycledPred, EcsFinal)
    /\ yielded(1) = {FirstUserId + 2}
    /\ ecs_generation(yields[1][1].ids[1]) = 1
    /\ ~ecs_has_id(rule[1].world, FirstUserId + 3, RecycledPred)

(***************************************************************************)
(* The root family: joins of two relations e and f over the pair worlds,   *)
(* with This and another variable as subjects in either order and with     *)
(* different numbers of occurrences.                                       *)
(***************************************************************************)

\* f(_X, .), e(., _X): as JoinRule, with the term on _X first.
JoinRuleXFirst == <<JoinRule[2], JoinRule[1]>>

\* e(., _X), f(_X, .), f(_X, _X): _X is a subject twice, This once.
JoinRuleXTwice ==
    JoinRule \o <<Term(TermIdEntity(FirstUserId + 1), TermIdVar("X"),
                       TermIdVar("X"), "EcsAnd")>>

\* e(_X, _Y), f(_Y, _X), f(_Y, _Y): no This; _Y is a subject twice.
JoinRuleNoThis ==
    <<Term(TermIdEntity(FirstUserId), TermIdVar("X"), TermIdVar("Y"),
           "EcsAnd"),
      Term(TermIdEntity(FirstUserId + 1), TermIdVar("Y"), TermIdVar("X"),
           "EcsAnd"),
      Term(TermIdEntity(FirstUserId + 1), TermIdVar("Y"), TermIdVar("Y"),
           "EcsAnd")>>

\* e(., _X), e(_X, .): the join of Rules_find_cyclic_pairs.
CyclicPairsRule ==
    <<JoinRule[1],
      Term(TermIdEntity(FirstUserId), TermIdVar("X"), TermIdThis, "EcsAnd")>>

RootRules ==
    {CyclicPairsRule, JoinRuleXFirst, JoinRuleXTwice, JoinRuleNoThis}

RootCases ==
    {[world |-> w, terms |-> t] : w \in PairWorlds, t \in RootRules}

InitRoot == InitCases(RootCases)

SpecRoot == InitRoot /\ [][Next]_vars

\* The name of the variable that scan_variables elects as root for the terms
\* of a rule ("" if it elects none): step 1 and the election, with
\* subject_count and this_var as scan_variables has them.
root_name(r) ==
    Let([s1 \in {scan_subjects(0, NoRoots(EmptyRule(r.world, r.terms)), 0)} |->
    Let([root_var \in {elect_root(s1, UINT8_MAX)} |->
       IF root_var = UINT8_MAX THEN ""
       ELSE s1.rule.variables[root_var + 1].name])])

\* The number of terms of which the variable named name is the subject.
subject_occurs(terms, name) ==
    Cardinality({t \in DOMAIN terms :
                   /\ term_id_is_variable(terms[t].subj)
                   /\ term_id_var_name(terms[t].subj) = name})

\* The names of the subject variables of a rule.
subject_names(terms) ==
    {term_id_var_name(terms[t].subj) :
        t \in {u \in DOMAIN terms : term_id_is_variable(terms[u].subj)}}

\* C27: when This is the subject of a term of the rule, the root is `.`
\* whatever the occurrence counts; when it is not, the root is a subject
\* variable with the highest number of occurrences.
C27_RootElection ==
    \A i \in Iters :
       IF "." \in subject_names(rule[i].terms)
       THEN root_name(rule[i]) = "."
       ELSE /\ root_name(rule[i]) \in subject_names(rule[i].terms)
            /\ \A n \in subject_names(rule[i].terms) :
                  subject_occurs(rule[i].terms, n)
                     <= subject_occurs(rule[i].terms, root_name(rule[i]))

\* A rule with This as a subject whose root is another variable has been
\* compiled and iterated to the end, and has yielded.
C27_Witness ==
    /\ "." \in subject_names(rule[1].terms)
    /\ root_name(rule[1]) = "X"
    /\ depleted(1)
    /\ Len(yields[1]) > 0


\* The depth scan_variables has left in the root of a compiled rule.
root_depth(r) ==
    r.variables[CHOOSE v \in DOMAIN r.variables :
                   /\ r.variables[v].kind = EcsRuleVarKindTable
                   /\ r.variables[v].name = root_name(r)].depth

\* C28: in every accepted rule with subject variables the elected root has
\* depth 0.
C28_RootDepth ==
    \A i \in Iters :
       rule_is_rule(rule[i]) /\ root_name(rule[i]) # ""
          => root_depth(rule[i]) = 0

\* The cyclic join e(., _X), e(_X, .) has been compiled with root `.`, the
\* root has depth 1 and _X depth 0, and the iteration has yielded and is
\* over.
C28_Witness ==
    /\ rule[1].terms = CyclicPairsRule
    /\ root_name(rule[1]) = "."
    /\ root_depth(rule[1]) = 1
    /\ \E v \in DOMAIN rule[1].variables :
          /\ rule[1].variables[v].kind = EcsRuleVarKindTable
          /\ rule[1].variables[v].name = "X"
          /\ rule[1].variables[v].depth = 0
    /\ depleted(1)
    /\ Len(yields[1]) > 0


\* ---------------------------------------------------------------------
\* C29: the order of the variable array.

\* The variables of a rule as scan_variables has created them before the
\* sort (step 1 and ensure_all_variables); the id of each is its position.
created_variables(r) ==
    Let([s1 \in {scan_subjects(0, NoRoots(EmptyRule(r.world, r.terms)), 0)} |->
       ensure_all_variables(
          [s1.rule EXCEPT
              !.subject_variable_count = variable_count(s1.rule)]).variables])

\* The id a variable of the compiled rule had before the sort.
created_id(r, var) ==
    Let([cs \in {created_variables(r)} |->
       cs[CHOOSE v \in DOMAIN cs :
             cs[v].kind = var.kind /\ cs[v].name = var.name].id])

\* a stands before b in the order (kind ascending, depth ascending, occurs
\* descending, id before the sort descending).
sorts_before(r, a, b) ==
    \/ a.kind < b.kind
    \/ a.kind = b.kind /\ a.depth < b.depth
    \/ a.kind = b.kind /\ a.depth = b.depth /\ a.occurs > b.occurs
    \/ /\ a.kind = b.kind /\ a.depth = b.depth /\ a.occurs = b.occurs
       /\ created_id(r, a) > created_id(r, b)

\* Two variables that the first three keys do not tell apart.
tied(a, b) == a.kind = b.kind /\ a.depth = b.depth /\ a.occurs = b.occurs

\* C29: the variables that scan_variables has sorted are in the order of
\* (kind ascending, depth ascending, occurs descending, id descending): of
\* two variables that tie on the first three keys the one with the higher
\* id stands first, so the order is uniquely determined.
C29_VariableOrder ==
    \A i \in Iters :
       rule_is_rule(rule[i]) =>
          \A v \in 1..(Len(created_variables(rule[i])) - 1) :
             sorts_before(rule[i], rule[i].variables[v],
                          rule[i].variables[v + 1])

\* A compiled rule in which two variables tie on kind, depth and occurs and
\* the one with the lower id stands first; the rule has been iterated to
\* the end and has yielded.
C29_Witness ==
    /\ \E v \in 1..(Len(created_variables(rule[1])) - 1) :
          /\ tied(rule[1].variables[v], rule[1].variables[v + 1])
          /\ created_id(rule[1], rule[1].variables[v])
                < created_id(rule[1], rule[1].variables[v + 1])
    /\ depleted(1)
    /\ Len(yields[1]) > 0


\* ---------------------------------------------------------------------
\* C30: the shape of a compiled program.

\* A label of the program of rule r: the index of one of its operations.
valid_label(r, lbl) == lbl \in 0..(Len(r.operations) - 1)

\* The operation of rule r at label lbl.
operation_at(r, lbl) == r.operations[lbl + 1]

\* The labels of the program of rule r are well formed.
well_formed_program(r) ==
    /\ Len(r.operations) >= 2
    /\ operation_at(r, 0).kind = "EcsRuleInput"
    /\ operation_at(r, 0).on_pass = 1
    /\ operation_at(r, 0).on_fail = -1
    /\ \A lbl \in 0..(Len(r.operations) - 1) :
          operation_at(r, lbl).kind = "EcsRuleYield"
             <=> lbl = Len(r.operations) - 1
    /\ \A lbl \in 1..(Len(r.operations) - 2) :
          /\ valid_label(r, operation_at(r, lbl).on_pass)
          /\ \/ valid_label(r, operation_at(r, lbl).on_fail)
             \/ operation_at(r, lbl).on_fail = -1
    /\ valid_label(r, operation_at(r, Len(r.operations) - 1).on_fail)

\* C30: in every compiled program operation 0 is Input with on_pass 1 and
\* on_fail -1, the last operation is the only Yield, every other operation
\* has labels of the program as on_pass and on_fail (on_fail may be -1),
\* and the operation an iterator is at is always an operation of the
\* program or -1, the end of the iteration; after a yield it is the on_fail
\* of Yield, which has no successor.
C30_ProgramShape ==
    \A i \in Iters :
       rule_is_rule(rule[i]) =>
          /\ well_formed_program(rule[i])
          /\ pc[i] \in {"idle", "running"} =>
                \/ iter[i].op = -1
                \/ valid_label(rule[i], iter[i].op)
          /\ pc[i] = "idle" /\ ret[i] = "true" =>
                iter[i].op =
                   operation_at(rule[i], Len(rule[i].operations) - 1).on_fail


\* A program with a Jump whose on_fail is -1 and with a Not operation has
\* been run to the end of the iteration, which is at -1, after a yield.
C30_Witness ==
    /\ rule_is_rule(rule[1])
    /\ \E lbl \in 1..(Len(rule[1].operations) - 2) :
          /\ operation_at(rule[1], lbl).kind = "EcsRuleJump"
          /\ operation_at(rule[1], lbl).on_fail = -1
    /\ \E lbl \in 1..(Len(rule[1].operations) - 2) :
          operation_at(rule[1], lbl).kind = "EcsRuleNot"
    /\ depleted(1)
    /\ iter[1].op = -1
    /\ Len(yields[1]) > 0


\* ---------------------------------------------------------------------
\* C31: the frames of a compiled program.

\* The operation at label lbl is the first operation of a new frame.
opens_frame(r, lbl) ==
    operation_at(r, lbl).frame > operation_at(r, lbl - 1).frame

\* Frame indices never decrease along program order.
frames_non_decreasing(r) ==
    \A lbl \in 1..(Len(r.operations) - 1) :
       operation_at(r, lbl - 1).frame <= operation_at(r, lbl).frame

inclusive_block(r, s) ==
    /\ s >= 0
    /\ s + 3 <= Len(r.operations) - 1
    /\ operation_at(r, s).kind = "EcsRuleSetJmp"
    /\ operation_at(r, s + 1).kind = "EcsRuleStore"
    /\ operation_at(r, s + 2).kind \in {"EcsRuleSubSet", "EcsRuleSuperSet"}
    /\ operation_at(r, s + 3).kind = "EcsRuleJump"

inclusive_blocks(r) ==
    {s \in 0..(Len(r.operations) - 1) : inclusive_block(r, s)}

\* The dispatcher of iterator i evaluates one operation in this step.
dispatches(i) ==
    pc[i] = "running" /\ <<iter[i], pc[i], redo[i], ret[i]>>' #
                         <<iter[i], pc[i], redo[i], ret[i]>>

\* The operation the dispatcher of iterator i runs next, -1 when it is done.
next_operation(i) == IF pc'[i] = "running" THEN iter'[i].op ELSE -1

jump_label(it, s) == it.op_ctx[s + 1].label

inclusive_step(i, s) ==
    LET lbl == iter[i].op
        nxt == iter'[i].op
    IN  CASE lbl = s /\ ~redo[i] ->
                /\ nxt = s + 1 /\ ~redo'[i]
                /\ jump_label(iter'[i], s) = s + 1
          [] lbl = s /\ redo[i] ->
                /\ jump_label(iter[i], s) = s + 1
                /\ nxt = s + 2 /\ ~redo'[i]
                /\ jump_label(iter'[i], s) = s + 2
          [] lbl = s + 1 /\ ~redo[i] ->
                /\ jump_label(iter[i], s) = s + 1
                /\ nxt = s + 4 /\ ~redo'[i]
          [] lbl = s + 1 /\ redo[i] ->
                /\ jump_label(iter[i], s) = s + 1
                /\ nxt = s /\ redo'[i]
          [] lbl = s + 2 /\ pc'[i] # "undefined" ->
                /\ jump_label(iter[i], s) = s + 2
                /\ \/ nxt = s + 4 /\ ~redo'[i]
                   \/ next_operation(i) = s - 1 /\ (s - 1 >= 0 => redo'[i])
          [] lbl = s + 3 ->
                /\ redo[i]
                /\ nxt = jump_label(iter[i], s) /\ redo'[i]
          [] OTHER -> TRUE

C32_InclusiveSet ==
    [][\A i \in Iters :
          dispatches(i) =>
             \A s \in inclusive_blocks(rule[i]) : inclusive_step(i, s)]_vars


\* The root was yielded, the next call went back through the Jump, the Store
\* and the SetJmp into the set operation, and that produced a second result.
C32_Witness ==
    \E i \in Iters : \E s \in inclusive_blocks(rule[i]) :
       /\ pc[i] = "idle" /\ ret[i] = "true"
       /\ Len(yields[i]) >= 2
       /\ iter[i].op_ctx # <<>>
       /\ jump_label(iter[i], s) = s + 2


(***************************************************************************)
(* C33: control flow of a Not block.  insert_term (rules.c 2264-2294)      *)
(* puts a Not at label p before the operations of the term and a Not at    *)
(* label q after them; the leading Not fails to q + 1 and the trailing Not *)
(* passes and fails to p - 1.  The operations after the block are entered  *)
(* from the block only by the leading Not evaluated again, which happens   *)
(* only when the wrapped operations failed back into it; a match reaches   *)
(* the trailing Not, which fails the block to p - 1; an operation after    *)
(* the block backtracks into the trailing Not only, and that one goes to   *)
(* p - 1 without entering the wrapped operations.                          *)
(***************************************************************************)
not_block(r, p, q) ==
    /\ 0 <= p /\ p < q /\ q <= Len(r.operations) - 1
    /\ operation_at(r, p).kind = "EcsRuleNot"
    /\ operation_at(r, q).kind = "EcsRuleNot"
    /\ operation_at(r, p).on_fail = q + 1
    /\ operation_at(r, q).on_pass = p - 1
    /\ operation_at(r, q).on_fail = p - 1

not_blocks(r) ==
    {b \in (0..(Len(r.operations) - 1)) \X (0..(Len(r.operations) - 1)) :
        not_block(r, b[1], b[2])}

\* Whether the next operation of iterator i is evaluated again: a Yield
\* leaves that in the iterator for the next call (rules.c:4076).
redone(i) == IF pc'[i] = "idle" THEN iter'[i].redo ELSE redo'[i]

not_step(i, p, q) ==
    LET lbl == iter[i].op
        nxt == iter'[i].op
    IN  /\ lbl = p /\ ~redo[i] => nxt = p + 1 /\ ~redone(i)
        /\ lbl = p /\ redo[i] => nxt = q + 1 /\ ~redone(i)
        /\ lbl = q => nxt = p - 1 /\ (nxt >= 0 => redone(i))
        /\ (lbl > p /\ lbl < q /\ pc'[i] # "undefined") => nxt >= p /\ nxt <= q
        /\ (nxt = p /\ lbl # p) =>
              \/ lbl < p /\ ~redone(i)
              \/ lbl > p /\ lbl < q /\ redone(i)
        /\ (nxt > p /\ nxt <= q /\ (lbl < p \/ lbl > q)) =>
              nxt = q /\ lbl > q /\ redone(i)
        /\ (nxt > q /\ lbl <= q) => lbl = p /\ redo[i] /\ nxt = q + 1

C33_NotBlock ==
    [][\A i \in Iters :
          dispatches(i) =>
             \A b \in not_blocks(rule[i]) : not_step(i, b[1], b[2])]_vars

\* The operations after a Not block were reached twice and produced a result
\* each time: the call after the first result backtracked through the block
\* to the operation before it, and the next call enters the trailing Not.
C33_Witness ==
    \E i \in Iters : \E b \in not_blocks(rule[i]) :
       /\ pc[i] = "idle" /\ ret[i] = "true"
       /\ Len(yields[i]) >= 2
       /\ iter[i].op = b[2]
       /\ iter[i].redo


(***************************************************************************)
(* The each family: one table of the final tag TagA whose rows hold, in    *)
(* any order, some of the builtin entities Wildcard and This and of two    *)
(* entities of the application; the rule TagA(_X) selects the table and    *)
(* produces its entities one by one with Each.                             *)
(***************************************************************************)

\* Largest number of rows of the table.
MaxEachRows == 3

EachEntities == {EcsWildcard, EcsThis, FirstUserId + 3, FirstUserId + 4}

EachRows ==
    {rows \in UNION {[1..n -> EachEntities] : n \in 1..MaxEachRows} :
        \A j, k \in DOMAIN rows : j # k => rows[j] # rows[k]}

EachWorld(rows) ==
    world_from(<<IsARelation, [entity |-> TagA, ids |-> {EcsFinal}]>>
               \o [k \in DOMAIN rows |-> [entity |-> rows[k], ids |-> {TagA}]])

EachRule == <<TagOfX(TagA, "EcsAnd")>>

EachCases == {[world |-> EachWorld(rows), terms |-> EachRule] : rows \in EachRows}

InitEach == InitCases(EachCases)

SpecEach == InitEach /\ [][Next]_vars

\* The entities Each may produce from a table: all but the builtin entities
\* it skips, in row order.
each_entities(entities) ==
    SelectSeq(entities, LAMBDA e : e # EcsWildcard /\ e # EcsThis)

\* The rows of the table of TagA.
tagged_rows(world) ==
    LET t == CHOOSE t \in DOMAIN world.tables : world.tables[t].type = <<TagA>>
    IN world.tables[t].entities

\* The values of _X in the results so far, in order.
each_produced(i) ==
    [k \in DOMAIN yields[i] |-> yield_var(rule[i], yields[i][k], "X")]

\* C34: over its first evaluation and the redos that follow, Each produces
\* every entity of the table other than Wildcard and This exactly once, in
\* row order, and then fails: the values of _X so far are a prefix of the
\* rows without the builtin entities, and all of them once the iteration is
\* finished.
C34_EachOnce ==
    \A i \in Iters :
       pc[i] \in {"idle", "running"} =>
          LET want == each_entities(tagged_rows(rule[i].world))
              got == each_produced(i)
          IN  /\ Len(got) <= Len(want)
              /\ got = SubSeq(want, 1, Len(got))
              /\ depleted(i) => got = want

\* A finished iteration over the rows Wildcard, E, F: E was produced twice.
C34_Witness ==
    /\ depleted(1)
    /\ tagged_rows(rule[1].world) =
          <<EcsWildcard, FirstUserId + 3, FirstUserId + 4>>
    /\ each_produced(1) =
          <<FirstUserId + 3, FirstUserId + 3, FirstUserId + 4>>


(***************************************************************************)
(* C35: find_next_column (rules.c 2951-2984), called first with column -1  *)
(* and then again with the column it returned, as eval_select does         *)
(* (rules.c 3361-3479), over the tables and pair masks of the pair family. *)
(***************************************************************************)

\* A filter that carries the mask only.
mask_filter(mask) == [mask |-> mask, same_var |-> FALSE]

\* The columns find_next_column returns, in the order of the calls, until it
\* reports no column.
RECURSIVE found_columns(_, _, _, _)
found_columns(world, table, column, filter) ==
    Let([next \in {find_next_column(world, table, column, filter)} |->
       IF next = -1 THEN <<>>
       ELSE <<next>> \o found_columns(world, table, next, filter)])

\* The columns of the table whose id matches the mask, in increasing order.
matching_columns(world, table, mask) ==
    LET type == table_type(world, table)
        RECURSIVE from(_)
        from(c) ==
            IF c >= Len(type) THEN <<>>
            ELSE IF ecs_id_match(type[c + 1], mask) THEN <<c>> \o from(c + 1)
            ELSE from(c + 1)
    IN from(0)

\* The masks (r, o), (r, *) and ( *, o) over the entities of the pair family.
PairMasks ==
    {ecs_pair(r, o) : r \in PairEntities \cup {EcsWildcard},
                      o \in PairEntities \cup {EcsWildcard}}
    \ {ecs_pair(EcsWildcard, EcsWildcard)}

\* C35: for every table and every mask, the first call of find_next_column
\* followed by its redo calls returns every column whose id matches the
\* mask, each once and in increasing order, and then reports no column;
\* also for a mask ( *, o), whose matching columns need not be adjacent.
C35_NextColumn ==
    \A i \in Iters : \A table \in DOMAIN rule[i].world.tables :
       \A mask \in PairMasks :
          found_columns(rule[i].world, table, -1, mask_filter(mask)) =
             matching_columns(rule[i].world, table, mask)

\* A finished iteration of X(This, e) over a table that stores (e, e) and
\* (f, e) with (e, f) between them: find_next_column gave up after (e, e),
\* and no result reports the id (f, e).
C35_Witness ==
    \E table \in DOMAIN rule[1].world.tables :
       LET mask == ecs_pair(EcsWildcard, FirstUserId)
           type == table_type(rule[1].world, table)
       IN  /\ depleted(1)
           /\ rule[1].terms = PredVarRule
           /\ table_entities(rule[1].world, table) # <<>>
           /\ Len(matching_columns(rule[1].world, table, mask)) = 2
           /\ Len(found_columns(rule[1].world, table, -1,
                                mask_filter(mask))) = 1
           /\ \A k \in DOMAIN yields[1] :
                 yields[1][k].ids[1] # ecs_pair(FirstUserId + 1, FirstUserId)
           /\ \E k \in DOMAIN yields[1] :
                 yields[1][k].ids[1] = ecs_pair(FirstUserId, FirstUserId)


(***************************************************************************)
(* The optional variable family: the rule of Rules_optional_w_subj_var,    *)
(* Likes(_X, _Y), ?Likes(_Z, _X), over the worlds in which each of three   *)
(* persons likes any set of the persons; Likes is final.                   *)
(***************************************************************************)

\* Number of persons.
NumPersons == 3

Persons == FirstUserId..(FirstUserId + NumPersons - 1)

PersonWorld(likes) ==
    world_from(<<IsARelation, [entity |-> Likes, ids |-> {EcsFinal}]>>
               \o [k \in 1..NumPersons |->
                      [entity |-> FirstUserId + k - 1,
                       ids |-> {ecs_pair(Likes, o) :
                                   o \in likes[FirstUserId + k - 1]}]])

PersonWorlds == {PersonWorld(likes) : likes \in [Persons -> SUBSET Persons]}

OptVarRule ==
    <<Term(TermIdEntity(Likes), TermIdVar("X"), TermIdVar("Y"), "EcsAnd"),
      Term(TermIdEntity(Likes), TermIdVar("Z"), TermIdVar("X"), "EcsOptional")>>

OptVarCases == {[world |-> w, terms |-> OptVarRule] : w \in PersonWorlds}

InitOptVar == InitCases(OptVarCases)

SpecOptVar == InitOptVar /\ [][Next]_vars

\* The persons that like x.
likers(world, x) ==
    {z \in Persons : ecs_has_id(world, z, ecs_pair(Likes, x))}

\* C36: _Z is bound only by the Optional term.  In every yield in which the
\* Optional term did not match, _Z reads as the wildcard, whatever it was
\* bound to in earlier yields; a yield never carries a binding of an
\* abandoned branch: _Z is the wildcard when nobody likes _X, and a person
\* that likes _X otherwise, and _X and _Y are a stored fact.
C36_Restored ==
    \A i \in Iters : \A k \in DOMAIN yields[i] :
       LET y == yields[i][k]
           x == var_value(rule[i], y, "X")
           z == var_value(rule[i], y, "Z")
       IN  /\ ~ecs_term_is_set(y, 2) => z = EcsWildcard
           /\ likers(rule[i].world, x) = {} => z = EcsWildcard
           /\ z # EcsWildcard => z \in likers(rule[i].world, x)
           /\ ecs_has_id(rule[i].world, x,
                         ecs_pair(Likes, var_value(rule[i], y, "Y")))

\* The Optional term matched in one yield, with _Z bound to a person, and
\* did not match in a later yield, where _Z reads as the wildcard.
C36_Witness ==
    \E k1, k2 \in DOMAIN yields[1] :
       /\ k1 < k2
       /\ ecs_term_is_set(yields[1][k1], 2)
       /\ var_value(rule[1], yields[1][k1], "Z") \in Persons
       /\ ~ecs_term_is_set(yields[1][k2], 2)
       /\ var_value(rule[1], yields[1][k2], "Z") = EcsWildcard


(***************************************************************************)
(* The wildcard subject family: TagA(This) and a term TagB( * ) whose      *)
(* subject is the wildcard, with each operator, over the tag worlds.       *)
(***************************************************************************)

WildOpers == {"EcsAnd", "EcsOptional", "EcsNot"}

WildRule(oper) ==
    <<TagTerm(TagA, "EcsAnd"),
      Term(TermIdEntity(TagB), TermIdEntity(EcsWildcard), TermIdNone, oper)>>

WildCases ==
    {[world |-> w, terms |-> WildRule(oper)] :
        w \in TagWorlds, oper \in WildOpers}

InitWild == InitCases(WildCases)

SpecWild == InitWild /\ [][Next]_vars

\* The operations that match the ids of term c: every lowering of a term
\* of these rules (insert_term) emits one Select or With of the term.
term_matches(r, c) ==
    {lbl \in 0..(operation_count(r) - 1) :
        /\ operation_at(r, lbl).kind \in {"EcsRuleSelect", "EcsRuleWith"}
        /\ operation_at(r, lbl).term = c}

\* C37: every term that is not skipped for having no subject is lowered
\* into the program exactly once, Not and Optional terms whose subject is
\* the wildcard included: the program of a rule holds one matching
\* operation for each of its terms.
C37_LoweredOnce ==
    \A i \in Iters :
        pc[i] # "none" =>
            \A c \in 0..(Len(rule[i].terms) - 1) :
                "EcsNothing" \notin rule[i].terms[c + 1].subj.set_mask =>
                    Cardinality(term_matches(rule[i], c)) = 1

\* An iteration of TagA(This), ?TagB( * ) is over and has yielded, and the
\* program of the rule holds two blocks for the Optional term.
C37_Witness ==
    /\ depleted(1)
    /\ yields[1] # <<>>
    /\ rule[1].terms[2].oper = "EcsOptional"
    /\ rule[1].terms[2].subj.entity = EcsWildcard
    /\ Cardinality(term_matches(rule[1], 1)) = 2


(***************************************************************************)
(* The skipped term family: the rule of the optional variable family with  *)
(* a third And term, Likes(0, _Z), whose subject is Nothing, over the same *)
(* worlds.  skip_term skips the term in every pass of the compiler.        *)
(***************************************************************************)

TermIdNothing == [TermIdNone EXCEPT !.set_mask = {"EcsNothing"}]

SkipRule ==
    OptVarRule
    \o <<Term(TermIdEntity(Likes), TermIdNothing, TermIdVar("Z"), "EcsAnd")>>

SkipCases == {[world |-> w, terms |-> SkipRule] : w \in PersonWorlds}

InitSkip == InitCases(SkipCases)

SpecSkip == InitSkip /\ [][Next]_vars

\* The variable is named by the predicate, the subject or the object of
\* the term.
term_names(r, t, v) ==
    r.variables[v].name
        \in {term_id_var_name(r.terms[t].pred),
             term_id_var_name(r.terms[t].subj),
             term_id_var_name(r.terms[t].obj)} \ {""}

\* The Entity-kind variables of the rule that occur in an And term.
and_variables(r) ==
    {v \in DOMAIN r.variables :
        /\ r.variables[v].kind = EcsRuleVarKindEntity
        /\ \E t \in DOMAIN r.terms :
              r.terms[t].oper = "EcsAnd" /\ term_names(r, t, v)}

\* The Entity-kind variables of the rule that occur in an And term that is
\* not skipped.
lowered_variables(r) ==
    {v \in and_variables(r) :
        \E t \in DOMAIN r.terms :
            /\ r.terms[t].oper = "EcsAnd"
            /\ ~skip_term(r.terms[t])
            /\ term_names(r, t, v)}

\* Every variable of the set holds a concrete entity in every result.
concrete(i, variables) ==
    \A k \in DOMAIN yields[i] :
        \A v \in variables :
            /\ yields[i][k].variables[v] \in Nat
            /\ yields[i][k].variables[v] \notin {0, EcsWildcard}

\* C38 as stated: in every result yielded, every Entity-kind variable that
\* occurs in an And term holds a concrete entity, neither 0 nor the
\* wildcard.
C38_Bound == \A i \in Iters : concrete(i, and_variables(rule[i]))

\* C38: in every result yielded, every Entity-kind variable that occurs in
\* an And term whose subject is not Nothing holds a concrete entity,
\* neither 0 nor the wildcard.
C38_BoundLowered == \A i \in Iters : concrete(i, lowered_variables(rule[i]))

\* A result of Likes(_X, _Y), ?Likes(_Z, _X), Likes(0, _Z) in which X and Y
\* hold persons and Z, named by the skipped And term and by the Optional
\* term that did not match, holds the wildcard.
C38_Witness ==
    /\ pc[1] = "idle" /\ ret[1] = "true"
    /\ Len(rule[1].terms) = 3
    /\ skip_term(rule[1].terms[3])
    /\ Cardinality(lowered_variables(rule[1])) = 2
    /\ Cardinality(and_variables(rule[1])) = 3
    /\ \E k \in DOMAIN yields[1] :
          /\ var_value(rule[1], yields[1][k], "X") \in Persons
          /\ var_value(rule[1], yields[1][k], "Y") \in Persons
          /\ var_value(rule[1], yields[1][k], "Z") = EcsWildcard


\* The iterator holds the storage ecs_rule_iter allocated.
allocated(i) == pc[i] \notin {"none", "undefined"} /\ iter[i].op_ctx # <<>>

\* C39: in every compiled rule the frame of every operation is smaller than
\* the number of operations and the frame of every operation other than
\* Input is at least 1, so the frame of an operation and the frame before
\* it lie inside the registers and the columns that ecs_rule_iter
\* allocates, one frame for each operation.
C39_FramesInside ==
    \A i \in Iters :
        rule_is_rule(rule[i]) =>
            \A lbl \in 0..(operation_count(rule[i]) - 1) :
                Let([op \in {operation_at(rule[i], lbl)} |->
                    /\ op.frame < operation_count(rule[i])
                    /\ (op.kind # "EcsRuleInput" => op.frame >= 1)
                    /\ (allocated(i) =>
                          /\ op.frame + 1 \in DOMAIN iter[i].registers
                          /\ rule_get_columns_frame(rule[i], op.frame)
                                + term_count(rule[i])
                                <= Len(iter[i].columns))])

\* An iteration has yielded with a program of one operation in each frame:
\* the frame of its Yield is the last frame that ecs_rule_iter allocated.
C39_Witness ==
    /\ rule_is_rule(rule[1])
    /\ allocated(1)
    /\ pc[1] = "idle" /\ ret[1] = "true"
    /\ yields[1] # <<>>
    /\ variable_count(rule[1]) > 0
    /\ operation_at(rule[1], operation_count(rule[1]) - 1).frame
          = operation_count(rule[1]) - 1
    /\ Len(iter[1].registers) = operation_count(rule[1])


\* The SubSet and SuperSet operations of the program.
set_operations(r) ==
    {lbl \in 0..(operation_count(r) - 1) :
        operation_at(r, lbl).kind \in {"EcsRuleSubSet", "EcsRuleSuperSet"}}

\* The set operation at lbl is about to push a frame on a full stack: the
\* frame would be written at index StorageSize of storage.
stack_overrun(i, lbl) ==
    /\ pc[i] = "undefined"
    /\ iter[i].op = lbl
    /\ iter[i].op_ctx[lbl + 1].sp + 1 >= StorageSize

\* C40: while a SubSet or SuperSet operation is evaluated the index of the
\* depth-first stack stays inside the 16 frames of the storage of the
\* operation's context, whatever the graph of the stored pairs: the index
\* of the top frame is at most 15 and no frame is pushed on a full stack.
C40_StackInside ==
    \A i \in Iters :
        rule_is_rule(rule[i]) /\ pc[i] # "none" /\ iter[i].op_ctx # <<>> =>
            \A lbl \in set_operations(rule[i]) :
                /\ iter[i].op_ctx[lbl + 1].sp \in -1..(StorageSize - 1)
                /\ Len(iter[i].op_ctx[lbl + 1].stack) <= StorageSize
                /\ ~stack_overrun(i, lbl)

\* A set operation over a cycle of pairs has yielded a result for each of
\* the 16 frames of its storage and pushes one more frame.
C40_Witness ==
    /\ Len(yields[1]) >= StorageSize
    /\ \E lbl \in set_operations(rule[1]) :
          /\ stack_overrun(1, lbl)
          /\ Len(iter[1].op_ctx[lbl + 1].stack) = StorageSize

====
